---- MODULE Spec2Model ----
(***************************************************************************)
(* The game projection built by the recap and article Lambda handlers      *)
(* (api_esn_generateRecap/index.mjs and its article copy): the event log   *)
(* of one game is read from the store, sorted by getTs, and turned into    *)
(* final score, per-quarter running score, scoring plays, turnovers and    *)
(* drives.                                                                 *)
(*                                                                         *)
(* JavaScript values are tagged records [t, n, s]: t is the kind           *)
(* ("undef", "null", "num", "nan", "str"), n the number, s the string.     *)
(* Numbers are integers or NaN; strings range over a finite universe on    *)
(* which trim / toLowerCase / toUpperCase / Number() are tabulated.        *)
(* Pass-through display fields (gameClock, description, eventId) carry no  *)
(* logic and are left out of the records.                                  *)
(***************************************************************************)
EXTENDS Integers, Sequences, FiniteSets, TLC

VARIABLES
    items,        \* the event store's content for the gameId, in store order
    response,     \* the response of the last handler invocation
    driveGroups,  \* summarizeDrives' local array `drives` in that invocation
    fetched,      \* the handler's local array `items` (data.Items) when that
                  \* invocation returned: the store's list, sorted in place
    wait,         \* one call of waitForVideoOperation (generateVideo): its
                  \* position, the clock and the last poll's reply
    legacy,       \* the response of the last invocation of the legacy recap
                  \* handler (the copy that follows the ingest handler)
    session,      \* the game's item in the session table
    ingests,      \* the ingest requests for the game, each with its position
    endStands     \* a game_end / final session update has been applied and
                  \* no game_start / kickoff ingest has taken a step since

ingestVars == <<session, ingests, endStands>>

vars == <<items, response, driveGroups, fetched, wait, legacy, session, ingests, endStands>>

-----------------------------------------------------------------------------
(* JavaScript values *)

Undef == [t |-> "undef", n |-> 0, s |-> ""]
Null == [t |-> "null", n |-> 0, s |-> ""]
NaN == [t |-> "nan", n |-> 0, s |-> ""]
Num(i) == [t |-> "num", n |-> i, s |-> ""]
Str(x) == [t |-> "str", n |-> 0, s |-> x]

\* String.prototype.trim on the string universe
Trim(x) ==
    CASE x = "  " -> ""
      [] x = " Titans " -> "Titans"
      [] x = " titans " -> "titans"
      [] OTHER -> x

\* String.prototype.toLowerCase on the string universe
Lower(x) ==
    CASE x = "Titans" -> "titans"
      [] x = "TITANS" -> "titans"
      [] x = " Titans " -> " titans "
      [] x = "Wraiths" -> "wraiths"
      [] x = "WRAITHS" -> "wraiths"
      [] x = "Ravens" -> "ravens"
      [] x = "Home" -> "home"
      [] x = "Away" -> "away"
      [] x = "TD" -> "td"
      [] x = "FG" -> "fg"
      [] x = "SAFETY" -> "safety"
      [] x = "Turnover" -> "turnover"
      [] x = "Interception" -> "interception"
      [] x = "Turnover on Downs" -> "turnover on downs"
      [] x = "Punt" -> "punt"
      [] OTHER -> x

\* String.prototype.toUpperCase on the string universe
Upper(x) ==
    CASE x = "td" -> "TD"
      [] x = "fg" -> "FG"
      [] x = "safety" -> "SAFETY"
      [] x = "score" -> "SCORE"
      [] x = "play" -> "PLAY"
      [] x = "touchdown" -> "TOUCHDOWN"
      [] OTHER -> x

\* String.prototype.includes(needle) for the needles extractTurnovers uses
Includes(x, needle) ==
    CASE needle = "turnover" -> x \in {"turnover", "turnover on downs"}
      [] needle = "interception" -> x = "interception"
      [] needle = "fumble" -> x = "fumble"
      [] needle = "downs" -> x \in {"downs", "turnover on downs"}
      [] OTHER -> FALSE

\* Number(string): numeric strings parse, blank strings are 0, the rest NaN
StrToNumber(x) ==
    CASE x = "7" -> Num(7)
      [] x = "3" -> Num(3)
      [] x = "30" -> Num(30)
      [] x = "" -> Num(0)
      [] x = "  " -> Num(0)
      [] OTHER -> NaN

\* Number(v)
ToNumber(v) ==
    CASE v.t = "undef" -> NaN
      [] v.t = "null" -> Num(0)
      [] v.t = "str" -> StrToNumber(v.s)
      [] OTHER -> v

\* String(v)
ToStr(v) ==
    CASE v.t = "str" -> v.s
      [] v.t = "num" -> ToString(v.n)
      [] v.t = "nan" -> "NaN"
      [] v.t = "null" -> "null"
      [] OTHER -> "undefined"

\* !!v
Truthy(v) ==
    CASE v.t = "num" -> v.n # 0
      [] v.t = "str" -> v.s # ""
      [] OTHER -> FALSE

\* a ?? b
Coalesce(a, b) == IF a.t \in {"undef", "null"} THEN b ELSE a

\* a || b
OrElse(a, b) == IF Truthy(a) THEN a ELSE b

\* Number.isInteger(v); every finite number of the model is an integer
IsInteger(v) == v.t = "num"

\* Date.parse on the string universe
DateParse(x) ==
    CASE x = "1970-01-01T00:00:00.050Z" -> Num(50)
      [] x = "1970-01-01T00:00:00.100Z" -> Num(100)
      [] OTHER -> NaN

-----------------------------------------------------------------------------
(* Events *)

\* payload {} : every field absent
NoPayload ==
    [homeTeam |-> Undef, awayTeam |-> Undef, team |-> Undef, quarter |-> Undef,
     points |-> Undef, scoreType |-> Undef, type |-> Undef, result |-> Undef,
     hasFinalScoreMap |-> FALSE, finalScore |-> <<>>,
     finalScoreHome |-> Undef, homeScore |-> Undef,
     finalScoreAway |-> Undef, awayScore |-> Undef,
     plays |-> Undef, totalYards |-> Undef, yards |-> Undef, driveNumber |-> Undef]

\* an event of the given type; hasPayload is FALSE when ev.payload is absent
Ev(type, hasPayload, payload) ==
    [type |-> type, timestamp |-> Undef, createdAt |-> Undef,
     hasPayload |-> hasPayload, payload |-> payload]

-----------------------------------------------------------------------------
(* Array.prototype.sort with a numeric comparator: a stable sort by key *)

RECURSIVE InsertIdx(_, _, _)
\* idx is a key-sorted sequence of indices; i goes after every index whose
\* key is not greater than keys[i]
InsertIdx(idx, i, keys) ==
    IF idx = <<>> THEN <<i>>
    ELSE IF keys[Head(idx)] > keys[i] THEN <<i>> \o idx
    ELSE <<Head(idx)>> \o InsertIdx(Tail(idx), i, keys)

RECURSIVE SortIdx(_, _)
SortIdx(keys, n) ==
    IF n = 0 THEN <<>> ELSE InsertIdx(SortIdx(keys, n - 1), n, keys)

\* s sorted by keys (keys[i] is the key of s[i]); ties keep their order
StableSort(s, keys) ==
    LET idx == SortIdx(keys, Len(s))
    IN  [j \in 1..Len(s) |-> s[idx[j]]]

-----------------------------------------------------------------------------
(* Helpers of the handler *)

getTs(ev) ==
    LET v == Coalesce(ev.timestamp, ev.createdAt)
    IN  IF v.t = "num" THEN v.n
        ELSE IF v.t = "str" /\ DateParse(v.s).t = "num" THEN DateParse(v.s).n
        ELSE 0

mapScoreTypeToPoints(type) ==
    IF type = "" THEN 0
    ELSE CASE Upper(type) = "TD" -> 6
           [] Upper(type) = "FG" -> 3
           [] Upper(type) = "SAFETY" -> 2
           [] OTHER -> 0

\* it?.payload ?? {}
PayloadOf(it) == IF it.hasPayload THEN it.payload ELSE NoPayload

\* typeof p.points === 'number' ? p.points : Number(p.points)
RawPoints(p) == IF p.points.t \in {"num", "nan"} THEN p.points ELSE ToNumber(p.points)

\* the guard of extractScoringPlays' loop body: the event yields a play
IsScoringPlay(it) ==
    LET p == PayloadOf(it)
    IN  /\ (it.type = "score" \/ RawPoints(p).t = "num")
        /\ IsInteger(ToNumber(p.quarter))
        /\ Truthy(Coalesce(p.team, Str("")))

\* the record extractScoringPlays pushes for a qualifying event
ScoringPlayOf(it) ==
    LET p == PayloadOf(it)
        subtype == Upper(ToStr(OrElse(OrElse(OrElse(p.scoreType, p.type),
                                             Str(it.type)), Str(""))))
    IN  [quarter |-> ToNumber(p.quarter).n,
         team |-> Coalesce(p.team, Str("")),
         type |-> subtype,
         points |-> IF RawPoints(p).t = "num" THEN RawPoints(p).n
                    ELSE mapScoreTypeToPoints(subtype),
         ts |-> getTs(it)]

RECURSIVE ScoringPlaysLoop(_)
\* the for loop of extractScoringPlays: the plays pushed, in input order
ScoringPlaysLoop(its) ==
    IF its = <<>> THEN <<>>
    ELSE (IF IsScoringPlay(Head(its)) THEN <<ScoringPlayOf(Head(its))>> ELSE <<>>)
         \o ScoringPlaysLoop(Tail(its))

extractScoringPlays(its) ==
    LET plays == ScoringPlaysLoop(its)
    IN  StableSort(plays, [i \in 1..Len(plays) |-> plays[i].ts])

\* p.result lower-cased when it is a string, else ''
ResultStr(p) == IF p.result.t = "str" THEN Lower(p.result.s) ELSE ""

IsDriveEndTurnover(it) ==
    /\ it.type = "drive_end"
    /\ \/ Includes(ResultStr(PayloadOf(it)), "turnover")
       \/ Includes(ResultStr(PayloadOf(it)), "interception")
       \/ Includes(ResultStr(PayloadOf(it)), "fumble")
       \/ Includes(ResultStr(PayloadOf(it)), "downs")

IsTurnover(it) ==
    LET p == PayloadOf(it)
    IN  /\ (it.type = "turnover" \/ IsDriveEndTurnover(it))
        /\ IsInteger(ToNumber(p.quarter))
        /\ Truthy(Coalesce(p.team, Str("")))

TurnoverOf(it) ==
    LET p == PayloadOf(it)
    IN  [quarter |-> ToNumber(p.quarter).n,
         team |-> Coalesce(p.team, Str("")),
         type |-> IF p.type.t = "str" /\ p.type.s # "" THEN p.type.s
                  ELSE IF IsDriveEndTurnover(it)
                       THEN (IF ResultStr(p) # "" THEN ResultStr(p) ELSE "turnover")
                       ELSE "",
         ts |-> getTs(it)]

RECURSIVE TurnoversLoop(_)
\* the for loop of extractTurnovers: the records pushed, in input order
TurnoversLoop(its) ==
    IF its = <<>> THEN <<>>
    ELSE (IF IsTurnover(Head(its)) THEN <<TurnoverOf(Head(its))>> ELSE <<>>)
         \o TurnoversLoop(Tail(its))

\* bug: an unstable final sort, records of equal ts come out reversed
extractTurnovers_tiesReversed(its) ==
    LET outs == TurnoversLoop(its)
        n == Len(outs)
        rev == [i \in 1..n |-> outs[n + 1 - i]]
    IN  StableSort(rev, [i \in 1..n |-> rev[i].ts])

extractTurnovers(its) ==
    LET outs == TurnoversLoop(its)
    IN  StableSort(outs, [i \in 1..Len(outs) |-> outs[i].ts])

\* bug: the team names are matched before the "home"/"away" flags
resolveSide_namesFirst(teamValue, homeTeam, awayTeam) ==
    IF ~Truthy(teamValue) THEN "null"
    ELSE LET t == Lower(Trim(ToStr(teamValue)))
             homeNorm == Lower(Trim(homeTeam))
             awayNorm == Lower(Trim(awayTeam))
         IN  IF homeNorm # "" /\ t = homeNorm THEN "home"
             ELSE IF awayNorm # "" /\ t = awayNorm THEN "away"
             ELSE IF t = "home" THEN "home"
             ELSE IF t = "away" THEN "away"
             ELSE "null"

\* "home", "away" or "null"
resolveSide(teamValue, homeTeam, awayTeam) ==
    IF ~Truthy(teamValue) THEN "null"
    ELSE LET t == Lower(Trim(ToStr(teamValue)))
             homeNorm == Lower(Trim(homeTeam))
             awayNorm == Lower(Trim(awayTeam))
         IN  IF t = "home" THEN "home"
             ELSE IF t = "away" THEN "away"
             ELSE IF homeNorm # "" /\ t = homeNorm THEN "home"
             ELSE IF awayNorm # "" /\ t = awayNorm THEN "away"
             ELSE "null"

-----------------------------------------------------------------------------
(* groupPointsByQuarter *)

\* let maxQ = 4: a regulation game has four quarters
RegulationQuarters == 4

\* byQuarter.get(q) || { home: 0, away: 0 }
BucketAt(byQuarter, q) ==
    IF q \in DOMAIN byQuarter THEN byQuarter[q] ELSE [home |-> 0, away |-> 0]

RECURSIVE BucketLoop(_, _, _, _)
\* the first loop: acc = [maxQ, byQuarter] after the plays sps.  sp.quarter is
\* an integer for every play extractScoringPlays returns; maxQ is raised
\* before the side is resolved.
BucketLoop(sps, homeTeam, awayTeam, acc) ==
    IF sps = <<>> THEN acc
    ELSE LET sp == Head(sps)
             q == sp.quarter
             maxQ == IF q > acc.maxQ THEN q ELSE acc.maxQ
             side == resolveSide(sp.team, homeTeam, awayTeam)
             bucket == BucketAt(acc.byQuarter, q)
             pts == sp.points
             filled == [home |-> bucket.home + (IF side = "home" THEN pts ELSE 0),
                        away |-> bucket.away + (IF side = "away" THEN pts ELSE 0)]
         IN  BucketLoop(Tail(sps), homeTeam, awayTeam,
                 IF side = "null"
                 THEN [maxQ |-> maxQ, byQuarter |-> acc.byQuarter]
                 ELSE [maxQ |-> maxQ, byQuarter |-> (q :> filled) @@ acc.byQuarter])

RECURSIVE QuartersLoop(_, _, _, _, _)
\* the second loop, from quarter q on, with the running totals so far
QuartersLoop(q, maxQ, byQuarter, cumulativeHome, cumulativeAway) ==
    IF q > maxQ THEN <<>>
    ELSE LET bucket == BucketAt(byQuarter, q)
             h == cumulativeHome + bucket.home
             a == cumulativeAway + bucket.away
         IN  <<[quarter |-> q, homePoints |-> h, awayPoints |-> a]>>
             \o QuartersLoop(q + 1, maxQ, byQuarter, h, a)

RECURSIVE QuartersLoop_perQuarter(_, _, _)
\* bug: each entry holds the quarter's own points
QuartersLoop_perQuarter(q, maxQ, byQuarter) ==
    IF q > maxQ THEN <<>>
    ELSE <<[quarter |-> q, homePoints |-> BucketAt(byQuarter, q).home,
            awayPoints |-> BucketAt(byQuarter, q).away]>>
         \o QuartersLoop_perQuarter(q + 1, maxQ, byQuarter)

NoBuckets == [q \in {} |-> [home |-> 0, away |-> 0]]

\* bug: per-quarter points instead of the running total
groupPointsByQuarter_perQuarter(scoringPlays, homeTeam, awayTeam) ==
    LET acc == BucketLoop(scoringPlays, homeTeam, awayTeam,
                          [maxQ |-> RegulationQuarters, byQuarter |-> NoBuckets])
    IN  QuartersLoop_perQuarter(1, acc.maxQ, acc.byQuarter)

\* bug: the range ends at the highest quarter that has a resolved play
groupPointsByQuarter_resolvedMax(scoringPlays, homeTeam, awayTeam) ==
    LET acc == BucketLoop(scoringPlays, homeTeam, awayTeam,
                          [maxQ |-> RegulationQuarters, byQuarter |-> NoBuckets])
        qs == DOMAIN acc.byQuarter \cup {RegulationQuarters}
        top == CHOOSE q \in qs : \A r \in qs : r <= q
    IN  QuartersLoop(1, top, acc.byQuarter, 0, 0)

groupPointsByQuarter(scoringPlays, homeTeam, awayTeam) ==
    LET acc == BucketLoop(scoringPlays, homeTeam, awayTeam,
                          [maxQ |-> RegulationQuarters, byQuarter |-> NoBuckets])
    IN  QuartersLoop(1, acc.maxQ, acc.byQuarter, 0, 0)

-----------------------------------------------------------------------------
(* Final score: handler lines 609-662 *)

\* the least element of a non-empty set of indices
MinIdx(S) == CHOOSE i \in S : \A j \in S : i <= j

\* Object.keys(fs).find(k => k === name)
\*   ?? Object.keys(fs).find(k => k.toLowerCase() === name.toLowerCase())
\* as an index into the entries of fs (0: undefined)
FindScoreKey(fs, name) ==
    LET exact == {i \in 1..Len(fs) : fs[i].k = name}
        anyCase == {i \in 1..Len(fs) : Lower(fs[i].k) = Lower(name)}
    IN  IF exact # {} THEN MinIdx(exact)
        ELSE IF anyCase # {} THEN MinIdx(anyCase)
        ELSE 0

\* tier 1: one side from the finalScore map; NaN when the map, the key or a
\* truthy key is missing
MapScore(p, name) ==
    LET i == IF p.hasFinalScoreMap THEN FindScoreKey(p.finalScore, name) ELSE 0
    IN  IF i # 0 /\ p.finalScore[i].k # "" THEN ToNumber(p.finalScore[i].v) ELSE NaN

\* tier 2: Number(p.finalScoreHome ?? p.homeScore ?? NaN), likewise for away
LegacyHome(p) == ToNumber(Coalesce(Coalesce(p.finalScoreHome, p.homeScore), NaN))
LegacyAway(p) == ToNumber(Coalesce(Coalesce(p.finalScoreAway, p.awayScore), NaN))

\* bug: the legacy fields always overwrite the map's values
GameEndScore_legacyFirst(p, homeTeam, awayTeam) ==
    LET h == IF IsInteger(LegacyHome(p)) THEN LegacyHome(p) ELSE MapScore(p, homeTeam)
        a == IF IsInteger(LegacyAway(p)) THEN LegacyAway(p) ELSE MapScore(p, awayTeam)
    IN  IF IsInteger(h) /\ IsInteger(a) THEN [home |-> h, away |-> a]
        ELSE [home |-> NaN, away |-> NaN]

\* variant: a tier counts only when it gives both sides
GameEndScore_allOrNothing(p, homeTeam, awayTeam) ==
    IF IsInteger(MapScore(p, homeTeam)) /\ IsInteger(MapScore(p, awayTeam))
    THEN [home |-> MapScore(p, homeTeam), away |-> MapScore(p, awayTeam)]
    ELSE IF IsInteger(LegacyHome(p)) /\ IsInteger(LegacyAway(p))
    THEN [home |-> LegacyHome(p), away |-> LegacyAway(p)]
    ELSE [home |-> NaN, away |-> NaN]

\* bug: an absent legacy field counts as 0 (?? 0 instead of ?? NaN)
GameEndScore_absentIsZero(p, homeTeam, awayTeam) ==
    LET legacyHome == ToNumber(Coalesce(Coalesce(p.finalScoreHome, p.homeScore), Num(0)))
        legacyAway == ToNumber(Coalesce(Coalesce(p.finalScoreAway, p.awayScore), Num(0)))
        h == IF ~IsInteger(MapScore(p, homeTeam)) THEN legacyHome ELSE MapScore(p, homeTeam)
        a == IF ~IsInteger(MapScore(p, awayTeam)) THEN legacyAway ELSE MapScore(p, awayTeam)
    IN  IF ~IsInteger(h) \/ ~IsInteger(a) THEN [home |-> NaN, away |-> NaN]
        ELSE [home |-> h, away |-> a]

\* finalHome / finalAway after the `if (gameEnd?.payload)` block
GameEndScore(p, homeTeam, awayTeam) ==
    LET mapHome == MapScore(p, homeTeam)
        mapAway == MapScore(p, awayTeam)
        h == IF ~IsInteger(mapHome) THEN LegacyHome(p) ELSE mapHome
        a == IF ~IsInteger(mapAway) THEN LegacyAway(p) ELSE mapAway
    IN  IF ~IsInteger(h) \/ ~IsInteger(a) THEN [home |-> NaN, away |-> NaN]
        ELSE [home |-> h, away |-> a]

RECURSIVE SumSide(_, _, _, _)
\* tier 3: the points of the plays whose team resolves to side
SumSide(sps, side, homeTeam, awayTeam) ==
    IF sps = <<>> THEN 0
    ELSE (IF resolveSide(Head(sps).team, homeTeam, awayTeam) = side
          THEN Head(sps).points ELSE 0)
         + SumSide(Tail(sps), side, homeTeam, awayTeam)

\* bug: a side the game_end payload does give is kept when the other side is
\* missing, and only the missing side is summed from the plays
FinalScore_partialKept(hasGameEnd, ge, scoringPlays, homeTeam, awayTeam) ==
    LET p == PayloadOf(ge)
        h == IF ~IsInteger(MapScore(p, homeTeam)) THEN LegacyHome(p)
             ELSE MapScore(p, homeTeam)
        a == IF ~IsInteger(MapScore(p, awayTeam)) THEN LegacyAway(p)
             ELSE MapScore(p, awayTeam)
        given == hasGameEnd /\ ge.hasPayload
    IN  [home |-> IF given /\ IsInteger(h) THEN h.n
                  ELSE SumSide(scoringPlays, "home", homeTeam, awayTeam),
         away |-> IF given /\ IsInteger(a) THEN a.n
                  ELSE SumSide(scoringPlays, "away", homeTeam, awayTeam)]

\* finalScore of the recap; ge is the game_end event when hasGameEnd
FinalScore(hasGameEnd, ge, scoringPlays, homeTeam, awayTeam) ==
    LET fromEnd == IF hasGameEnd /\ ge.hasPayload
                   THEN GameEndScore(ge.payload, homeTeam, awayTeam)
                   ELSE [home |-> NaN, away |-> NaN]
    IN  IF ~IsInteger(fromEnd.home) \/ ~IsInteger(fromEnd.away)
        THEN [home |-> SumSide(scoringPlays, "home", homeTeam, awayTeam),
              away |-> SumSide(scoringPlays, "away", homeTeam, awayTeam)]
        ELSE [home |-> fromEnd.home.n, away |-> fromEnd.away.n]

-----------------------------------------------------------------------------
(* summarizeDrives *)

NoEvent == Ev("", FALSE, NoPayload)

\* current = null
NoDrive ==
    [open |-> FALSE, startEvent |-> NoEvent, hasEnd |-> FALSE, endEvent |-> NoEvent,
     events |-> <<>>]

\* bug: the open drive is pushed even when it captured nothing
PushIfAny_always(drives, current) ==
    IF current.open THEN Append(drives, current) ELSE drives

\* if (current && current.events.length > 0) drives.push(current)
PushIfAny(drives, current) ==
    IF current.open /\ Len(current.events) > 0 THEN Append(drives, current) ELSE drives

RECURSIVE DrivesLoop_startAppended(_, _, _)
\* bug: a drive_start met inside a drive is captured like any other event
DrivesLoop_startAppended(its, drives, current) ==
    IF its = <<>> THEN PushIfAny(drives, current)
    ELSE LET ev == Head(its)
         IN  IF ev.type = "drive_start" /\ ~current.open
             THEN DrivesLoop_startAppended(Tail(its), drives,
                             [open |-> TRUE, startEvent |-> ev, hasEnd |-> FALSE,
                              endEvent |-> NoEvent, events |-> <<>>])
             ELSE IF ~current.open
             THEN DrivesLoop_startAppended(Tail(its), drives, current)
             ELSE IF ev.type = "drive_end"
             THEN DrivesLoop_startAppended(Tail(its),
                             Append(drives, [current EXCEPT !.events = Append(@, ev),
                                                            !.hasEnd = TRUE,
                                                            !.endEvent = ev]),
                             NoDrive)
             ELSE DrivesLoop_startAppended(Tail(its), drives,
                             [current EXCEPT !.events = Append(@, ev)])

RECURSIVE DrivesLoop_noReset(_, _, _)
\* bug: current is not reset after a drive_end, the emitted drive stays open
DrivesLoop_noReset(its, drives, current) ==
    IF its = <<>> THEN PushIfAny(drives, current)
    ELSE LET ev == Head(its)
         IN  IF ev.type = "drive_start"
             THEN DrivesLoop_noReset(Tail(its), PushIfAny(drives, current),
                             [open |-> TRUE, startEvent |-> ev, hasEnd |-> FALSE,
                              endEvent |-> NoEvent, events |-> <<>>])
             ELSE IF ~current.open
             THEN DrivesLoop_noReset(Tail(its), drives, current)
             ELSE IF ev.type = "drive_end"
             THEN DrivesLoop_noReset(Tail(its),
                             Append(drives, [current EXCEPT !.events = Append(@, ev),
                                                            !.hasEnd = TRUE,
                                                            !.endEvent = ev]),
                             [current EXCEPT !.events = Append(@, ev)])
             ELSE DrivesLoop_noReset(Tail(its), drives,
                             [current EXCEPT !.events = Append(@, ev)])

RECURSIVE DrivesLoop(_, _, _)
\* the for loop and the push after it: the array `drives`
DrivesLoop(its, drives, current) ==
    IF its = <<>> THEN PushIfAny(drives, current)
    ELSE LET ev == Head(its)
         IN  IF ev.type = "drive_start"
             THEN DrivesLoop(Tail(its), PushIfAny(drives, current),
                             [open |-> TRUE, startEvent |-> ev, hasEnd |-> FALSE,
                              endEvent |-> NoEvent, events |-> <<>>])
             ELSE IF ~current.open
             THEN DrivesLoop(Tail(its), drives, current)
             ELSE IF ev.type = "drive_end"
             THEN DrivesLoop(Tail(its),
                             Append(drives, [current EXCEPT !.events = Append(@, ev),
                                                            !.hasEnd = TRUE,
                                                            !.endEvent = ev]),
                             NoDrive)
             ELSE DrivesLoop(Tail(its), drives,
                             [current EXCEPT !.events = Append(@, ev)])

collectDrives(its) == DrivesLoop(its, <<>>, NoDrive)

RECURSIVE CountPlays(_)
\* d.events.filter((e) => e.type === 'play').length
CountPlays(evs) ==
    IF evs = <<>> THEN 0
    ELSE (IF Head(evs).type = "play" THEN 1 ELSE 0) + CountPlays(Tail(evs))

RECURSIVE SumYards(_)
\* the reduce over d.events: numeric yards, numeric strings included
SumYards(evs) ==
    IF evs = <<>> THEN 0
    ELSE LET py == PayloadOf(Head(evs)).yards
             n == IF py.t \in {"num", "nan"} THEN py
                  ELSE IF py.t = "str" THEN ToNumber(py) ELSE Num(0)
         IN  (IF n.t = "num" THEN n.n ELSE 0) + SumYards(Tail(evs))

\* the callback of drives.map for the drive d at (0-based) index idx
DriveSummary(d, idx) ==
    LET startPayload == PayloadOf(d.startEvent)
        endPayload == IF d.hasEnd THEN PayloadOf(d.endEvent) ELSE NoPayload
        first == IF Len(d.events) > 0 THEN PayloadOf(d.events[1]) ELSE NoPayload
        quarter == ToNumber(OrElse(OrElse(startPayload.quarter, first.quarter), NaN))
    IN  [quarter |-> IF quarter.t = "num" THEN quarter ELSE Undef,
         team |-> OrElse(OrElse(startPayload.team, first.team), Str("Unknown")),
         driveNumber |-> OrElse(OrElse(startPayload.driveNumber, endPayload.driveNumber),
                                Num(idx + 1)),
         plays |-> IF endPayload.plays.t \in {"num", "nan"} THEN endPayload.plays
                   ELSE Num(CountPlays(d.events)),
         yards |-> IF endPayload.totalYards.t \in {"num", "nan"} THEN endPayload.totalYards
                   ELSE Num(SumYards(d.events)),
         result |-> ToStr(OrElse(endPayload.result, Str("")))]

summarizeDrives(its) ==
    LET drives == collectDrives(its)
    IN  [i \in 1..Len(drives) |-> DriveSummary(drives[i], i - 1)]

-----------------------------------------------------------------------------
(* The handler: projection assembly, handler lines 575-714 *)

NoRecap ==
    [homeTeam |-> "", awayTeam |-> "", finalScore |-> [home |-> 0, away |-> 0],
     quarters |-> <<>>, scoringPlays |-> <<>>, turnovers |-> <<>>, drives |-> <<>>,
     eventsCount |-> 0]

\* bug: an unstable sort, events of equal time come out in reverse order
SortedItems_tiesReversed(its) ==
    LET n == Len(its)
        rev == [i \in 1..n |-> its[n + 1 - i]]
    IN  StableSort(rev, [i \in 1..n |-> getTs(rev[i])])

\* items.sort((a, b) => getTs(a) - getTs(b))
SortedItems(its) == StableSort(its, [i \in 1..Len(its) |-> getTs(its[i])])

\* bug: the last occurrence is taken instead of the first
FindType_last(its, type) ==
    LET S == {i \in 1..Len(its) : its[i].type = type}
    IN  IF S = {} THEN 0 ELSE CHOOSE i \in S : \A j \in S : j <= i

\* items.find(i => i.type === type), as an index (0: undefined)
FindType(its, type) ==
    LET S == {i \in 1..Len(its) : its[i].type = type}
    IN  IF S = {} THEN 0 ELSE MinIdx(S)

\* bug: a game_start without payload is let through
StartMissing_noPayloadCheck(its, gs) == gs = 0

\* !gameStart || !gameStart.payload
StartMissing(its, gs) == gs = 0 \/ ~its[gs].hasPayload

\* String(gameStart.payload.homeTeam ?? ''), likewise awayTeam
TeamName(v) == ToStr(Coalesce(v, Str("")))

\* !homeTeam || !awayTeam
TeamsMissing(homeTeam, awayTeam) == homeTeam = "" \/ awayTeam = ""

\* bug: a game_end alone does not make the game sufficient
Insufficient_ignoreGameEnd(scoringPlaysRaw, turnoversRaw, ge) ==
    Len(scoringPlaysRaw) = 0 /\ Len(turnoversRaw) = 0

\* !scoringPlaysRaw.length && !turnoversRaw.length && !gameEnd
Insufficient(scoringPlaysRaw, turnoversRaw, ge) ==
    Len(scoringPlaysRaw) = 0 /\ Len(turnoversRaw) = 0 /\ ge = 0

NotReady(state) == [state |-> state, recap |-> NoRecap, drives |-> <<>>]

\* the terminal state reached on the event list its0 the store returned, with
\* the projection (recapInput) and summarizeDrives' drive groups when READY
Assemble(its0) ==
    IF Len(its0) = 0 THEN NotReady("NOT_FOUND")
    ELSE
    LET its == SortedItems(its0)
        gs == FindType(its, "game_start")
    IN  IF StartMissing(its, gs) THEN NotReady("FAILED_NO_START")
        ELSE
        LET homeTeam == TeamName(PayloadOf(its[gs]).homeTeam)
            awayTeam == TeamName(PayloadOf(its[gs]).awayTeam)
        IN  IF TeamsMissing(homeTeam, awayTeam) THEN NotReady("FAILED_NO_TEAMS")
            ELSE
            LET scoringPlaysRaw == extractScoringPlays(its)
                turnoversRaw == extractTurnovers(its)
                ge == FindType(its, "game_end")
            IN  IF Insufficient(scoringPlaysRaw, turnoversRaw, ge)
                THEN NotReady("INSUFFICIENT")
                ELSE
                [state |-> "READY",
                 recap |->
                    [homeTeam |-> homeTeam,
                     awayTeam |-> awayTeam,
                     finalScore |-> FinalScore(ge # 0, IF ge # 0 THEN its[ge] ELSE NoEvent,
                                               scoringPlaysRaw, homeTeam, awayTeam),
                     quarters |-> groupPointsByQuarter(scoringPlaysRaw, homeTeam, awayTeam),
                     scoringPlays |-> [i \in 1..Len(scoringPlaysRaw) |->
                                          [quarter |-> scoringPlaysRaw[i].quarter,
                                           team |-> scoringPlaysRaw[i].team,
                                           type |-> scoringPlaysRaw[i].type,
                                           points |-> scoringPlaysRaw[i].points]],
                     turnovers |-> [i \in 1..Len(turnoversRaw) |->
                                          [quarter |-> turnoversRaw[i].quarter,
                                           team |-> turnoversRaw[i].team,
                                           type |-> turnoversRaw[i].type]],
                     drives |-> summarizeDrives(its),
                     eventsCount |-> Len(its)],
                 drives |-> collectDrives(its)]

-----------------------------------------------------------------------------
(* The handler: request, store read, response *)

\* the two handlers that carry this projection code
Handlers == {"recap", "article"}

\* bug: the not-enough-data outcome is reported as a server error
StatusOf_insufficient500(state) ==
    IF state = "INSUFFICIENT" THEN 500 ELSE 404

\* statusCode of the return taken for a non-READY terminal state
StatusOf(state) ==
    CASE state = "NOT_FOUND" -> 404
      [] state = "FAILED_NO_START" -> 404
      [] state = "FAILED_NO_TEAMS" -> 404
      [] state = "INSUFFICIENT" -> 404

\* what the request meets: the request body, the article handler's output
\* bucket setting, the Query and Scan results, the LLM reply, the S3 write
GoodEnv ==
    [req |-> "ok", bucket |-> TRUE, query |-> "ok", scan |-> "ok", llm |-> "text",
     s3 |-> "ok"]

Envs ==
    {GoodEnv}
    \cup {[GoodEnv EXCEPT !.req = r] : r \in {"badJson", "noGameId"}}
    \cup {[GoodEnv EXCEPT !.bucket = FALSE]}
    \cup {[GoodEnv EXCEPT !.query = q] :
            q \in {"ValidationException", "ResourceNotFoundException", "other"}}
    \cup {[GoodEnv EXCEPT !.query = "ValidationException", !.scan = "fail"]}
    \cup {[GoodEnv EXCEPT !.llm = l] : l \in {"noText", "badJson", "noArticle", "throw"}}
    \cup {[GoodEnv EXCEPT !.s3 = "fail"]}

Reply(kind, status, state, recap, queries, scans, llmCalls) ==
    [handler |-> kind, status |-> status, state |-> state, recap |-> recap,
     queries |-> queries, scans |-> scans, llmCalls |-> llmCalls]

NoResponse == Reply("", 0, "NONE", NoRecap, 0, 0, 0)

\* status after the LLM call of a READY request: the recap handler answers 200
\* whatever the LLM did; the article handler needs the article and the S3 write
ReadyStatus(kind, env) ==
    IF kind = "recap" THEN 200
    ELSE IF env.llm # "text" THEN 502
    ELSE IF env.s3 # "ok" THEN 500
    ELSE 200

\* bug: the Scan fallback is taken after any Query failure
HandlerResponse_scanAfterAnyFailure(kind, env, its) ==
    IF kind = "article" /\ ~env.bucket THEN Reply(kind, 500, "NONE", NoRecap, 0, 0, 0)
    ELSE IF env.req # "ok" THEN Reply(kind, 400, "NONE", NoRecap, 0, 0, 0)
    ELSE IF env.query # "ok" /\ env.scan = "fail"
    THEN Reply(kind, 500, "NONE", NoRecap, 1, 1, 0)
    ELSE
    LET scans == IF env.query # "ok" THEN 1 ELSE 0
        asm == Assemble(its)
    IN  IF asm.state # "READY"
        THEN Reply(kind, StatusOf(asm.state), asm.state, NoRecap, 1, scans, 0)
        ELSE Reply(kind, ReadyStatus(kind, env), "READY", asm.recap, 1, scans, 1)

\* the response of handler `kind` in environment env over the stored events
HandlerResponse(kind, env, its) ==
    IF kind = "article" /\ ~env.bucket THEN Reply(kind, 500, "NONE", NoRecap, 0, 0, 0)
    ELSE IF env.req # "ok" THEN Reply(kind, 400, "NONE", NoRecap, 0, 0, 0)
    ELSE IF env.query \notin {"ok", "ValidationException"}
    THEN Reply(kind, 500, "NONE", NoRecap, 1, 0, 0)
    ELSE IF env.query = "ValidationException" /\ env.scan = "fail"
    THEN Reply(kind, 500, "NONE", NoRecap, 1, 1, 0)
    ELSE
    LET scans == IF env.query = "ValidationException" THEN 1 ELSE 0
        asm == Assemble(its)
    IN  IF asm.state # "READY"
        THEN Reply(kind, StatusOf(asm.state), asm.state, NoRecap, 1, scans, 0)
        ELSE Reply(kind, ReadyStatus(kind, env), "READY", asm.recap, 1, scans, 1)

-----------------------------------------------------------------------------
(* The legacy recap handler: its own getTs (same code), extractors, quarters *)

\* the guard of the legacy extractScoringPlays' loop body
LegacyIsScore(it) ==
    LET p == PayloadOf(it)
    IN  /\ it.type = "score"
        /\ IsInteger(ToNumber(p.quarter))
        /\ Truthy(Coalesce(p.team, Str("")))

\* the record it pushes; points: typeof p.points === 'number' ? p.points
\*                               : mapScoreTypeToPoints(p.type ?? '')
LegacyPlayOf(it) ==
    LET p == PayloadOf(it)
    IN  [quarter |-> ToNumber(p.quarter).n,
         team |-> Coalesce(p.team, Str("")),
         points |-> IF p.points.t = "num" THEN p.points.n
                    ELSE mapScoreTypeToPoints(ToStr(Coalesce(p.type, Str("")))),
         ts |-> getTs(it)]

RECURSIVE LegacyPlaysLoop(_)
LegacyPlaysLoop(its) ==
    IF its = <<>> THEN <<>>
    ELSE (IF LegacyIsScore(Head(its)) THEN <<LegacyPlayOf(Head(its))>> ELSE <<>>)
         \o LegacyPlaysLoop(Tail(its))

LegacyScoringPlays(its) ==
    LET plays == LegacyPlaysLoop(its)
    IN  StableSort(plays, [i \in 1..Len(plays) |-> plays[i].ts])

\* the guard of the legacy extractTurnovers' loop body
LegacyIsTurnover(it) ==
    LET p == PayloadOf(it)
    IN  /\ it.type = "turnover"
        /\ IsInteger(ToNumber(p.quarter))
        /\ Truthy(Coalesce(p.team, Str("")))

RECURSIVE LegacySum(_, _, _)
\* the points of the plays of the quarters qs whose team === name
LegacySum(sps, name, qs) ==
    IF sps = <<>> THEN 0
    ELSE (IF /\ Head(sps).team.t = "str" /\ Head(sps).team.s = name
             /\ Head(sps).quarter \in qs
          THEN Head(sps).points ELSE 0)
         + LegacySum(Tail(sps), name, qs)

\* the legacy groupPointsByQuarter: each entry holds the points of its quarter
LegacyQuarters(sps, homeTeam, awayTeam) ==
    LET qs == {sps[i].quarter : i \in 1..Len(sps)} \cup {RegulationQuarters}
        maxQ == CHOOSE q \in qs : \A r \in qs : r <= q
    IN  [q \in 1..maxQ |-> [quarter |-> q,
                            homePoints |-> LegacySum(sps, homeTeam, {q}),
                            awayPoints |-> LegacySum(sps, awayTeam, {q})]]

\* final score: the legacy fields of game_end when both are integers, else
\* the sums of the plays whose team is exactly the home or the away name
LegacyFinalScore(hasGameEnd, ge, sps, homeTeam, awayTeam) ==
    LET p == PayloadOf(ge)
    IN  IF /\ hasGameEnd /\ ge.hasPayload
           /\ IsInteger(LegacyHome(p)) /\ IsInteger(LegacyAway(p))
        THEN [home |-> LegacyHome(p).n, away |-> LegacyAway(p).n]
        ELSE [home |-> LegacySum(sps, homeTeam, Int),
              away |-> LegacySum(sps, awayTeam, Int)]

NoLegacyRecap == [finalScore |-> [home |-> 0, away |-> 0], quarters |-> <<>>]

\* the legacy handler from the sort on
LegacyAssemble(its0) ==
    IF Len(its0) = 0 THEN [state |-> "NOT_FOUND", recap |-> NoLegacyRecap]
    ELSE
    LET its == SortedItems(its0)
        gs == FindType(its, "game_start")
    IN  IF StartMissing(its, gs) THEN [state |-> "FAILED_NO_START", recap |-> NoLegacyRecap]
        ELSE
        LET homeTeam == TeamName(PayloadOf(its[gs]).homeTeam)
            awayTeam == TeamName(PayloadOf(its[gs]).awayTeam)
        IN  IF TeamsMissing(homeTeam, awayTeam)
            THEN [state |-> "FAILED_NO_TEAMS", recap |-> NoLegacyRecap]
            ELSE
            LET sps == LegacyScoringPlays(its)
                ge == FindType(its, "game_end")
            IN  IF /\ Len(sps) = 0 /\ ge = 0
                   /\ \A i \in 1..Len(its) : ~LegacyIsTurnover(its[i])
                THEN [state |-> "INSUFFICIENT", recap |-> NoLegacyRecap]
                ELSE [state |-> "READY",
                      recap |-> [finalScore |->
                                    LegacyFinalScore(ge # 0,
                                                     IF ge # 0 THEN its[ge] ELSE NoEvent,
                                                     sps, homeTeam, awayTeam),
                                 quarters |-> LegacyQuarters(sps, homeTeam, awayTeam)]]

NoLegacy == [status |-> 0, state |-> "NONE", recap |-> NoLegacyRecap]

\* the legacy handler's response: one Query, no Scan fallback
LegacyResponse(env, its) ==
    IF env.req # "ok" THEN [status |-> 400, state |-> "NONE", recap |-> NoLegacyRecap]
    ELSE IF env.query # "ok" THEN [status |-> 500, state |-> "NONE", recap |-> NoLegacyRecap]
    ELSE LET asm == LegacyAssemble(its)
         IN  [status |-> IF asm.state = "READY" THEN 200 ELSE 404,
              state |-> asm.state, recap |-> asm.recap]

-----------------------------------------------------------------------------
(* waitForVideoOperation: the poll loop of the video generation *)

\* the body of a poll's reply: ok is res.ok, json is what JSON.parse makes of
\* the text ("invalid" when it throws), done / error / uri are the fields of
\* the parsed object
PollReply(ok, json, done, error, uri) ==
    [ok |-> ok, json |-> json, done |-> done, error |-> error, uri |-> uri]

NoReply == PollReply(FALSE, "none", FALSE, FALSE, FALSE)

\* the call has not been made
NotCalled ==
    [pc |-> "idle", now |-> 0, start |-> 0, pollIntervalMs |-> 0, timeoutMs |-> 0,
     sentAt |-> 0, reply |-> NoReply, error |-> "", videoUri |-> FALSE]

\* bug: a loop without the timeout ceiling
TimedOut_noCeiling(elapsed, timeoutMs) == FALSE

\* Date.now() - start > timeoutMs
TimedOut(elapsed, timeoutMs) == elapsed > timeoutMs

\* what the loop does with a poll's reply: the error it throws, "sleep" for
\* another round, or "return"
AfterReply(r) ==
    CASE ~r.ok -> "poll_failed"
      [] r.json = "null" -> "non_json"
      [] r.json = "invalid" -> "sleep"
      [] ~r.done -> "sleep"
      [] r.error -> "operation_failed"
      [] ~r.uri -> "no_video_uri"
      [] OTHER -> "return"

-----------------------------------------------------------------------------
(* The ingest handler and updateGameSession *)

\* the number of ingest requests for the game
MaxIngests == 3

\* no item for the gameId in the session table
NoSession == [exists |-> FALSE, gameStatus |-> ""]

\* a request that has not arrived; found is what its GetCommand returned
NoIngest == [pc |-> "idle", type |-> "", found |-> FALSE]

\* the time every event of the model is stamped with
IngestTime == "1970-01-01T00:00:00.050Z"

\* eventType.toLowerCase() on the types of the model
IsStartType(type) == type \in {"game_start", "kickoff"}
IsEndType(type) == type \in {"game_end", "final"}

\* the paths the update expression assigns gameStatus on: once with 'active'
\* when the GetCommand found no session, once more by the event type
StatusAssignments(found, type) ==
    (IF found THEN <<>> ELSE <<"active">>)
    \o (IF IsStartType(type) THEN <<"active">>
        ELSE IF IsEndType(type) THEN <<"completed">>
        ELSE <<>>)

\* DynamoDB rejects an UpdateExpression that sets one path twice
\* (ValidationException: two document paths overlap); the catch of
\* updateGameSession swallows it
UpdateRejected(found, type) == Len(StatusAssignments(found, type)) > 1

\* the session item after the UpdateCommand has been applied
UpdatedSession(found, type) ==
    [exists |-> TRUE,
     gameStatus |-> IF StatusAssignments(found, type) = <<>> THEN session.gameStatus
                    ELSE StatusAssignments(found, type)[1]]

-----------------------------------------------------------------------------
(* State machine *)

Init ==
    /\ items = <<>>
    /\ response = NoResponse
    /\ driveGroups = <<>>
    /\ fetched = <<>>
    /\ wait = NotCalled
    /\ legacy = NoLegacy
    /\ session = NoSession
    /\ ingests = [i \in 1..MaxIngests |-> NoIngest]
    /\ endStands = FALSE

\* an event is appended to the game's log, which is never mutated otherwise
StoreAppend(e, max) ==
    /\ Len(items) < max
    /\ items' = Append(items, e)
    /\ response' = NoResponse
    /\ driveGroups' = <<>>
    /\ fetched' = <<>>
    /\ legacy' = NoLegacy
    /\ UNCHANGED <<wait, ingestVars>>

\* one invocation of a handler, from the request to its response; the request
\* is answered from the stored events alone, so it is taken from the states
\* that hold no earlier response
Handler(kind, env) ==
    /\ response = NoResponse
    /\ response' = HandlerResponse(kind, env, items)
    /\ driveGroups' = IF response'.state = "READY" THEN Assemble(items).drives ELSE <<>>
    /\ fetched' = IF response'.state # "NONE" THEN SortedItems(items) ELSE <<>>
    /\ UNCHANGED <<items, wait, legacy, ingestVars>>

\* one invocation of the legacy recap handler
LegacyHandler(env) ==
    /\ legacy = NoLegacy
    /\ legacy' = LegacyResponse(env, items)
    /\ UNCHANGED <<items, response, driveGroups, fetched, wait, ingestVars>>

-----------------------------------------------------------------------------
(* Event universes and specifications *)

GameStart(homeTeam, awayTeam) ==
    Ev("game_start", TRUE, [NoPayload EXCEPT !.homeTeam = homeTeam, !.awayTeam = awayTeam])

Score(team, quarter, points) ==
    Ev("score", TRUE, [NoPayload EXCEPT !.team = Str(team), !.quarter = Num(quarter),
                                        !.points = Num(points)])

\* game_end with payload {}
GameEndEmpty == Ev("game_end", TRUE, NoPayload)

TitansWraiths == GameStart(Str("Titans"), Str("Wraiths"))

\* scoring: both sides, case-insensitive names, overtime quarters, a team that
\* is neither side, a negative points value
EventsScore ==
    {TitansWraiths, Score("Titans", 1, 7), Score("Wraiths", 2, 3),
     Score("wraiths", 5, 3), Score("Ravens", 6, 2), Score("Titans", 2, -3),
     GameEndEmpty}

MaxEventsScore == 4

NextScore ==
    \/ \E e \in EventsScore : StoreAppend(e, MaxEventsScore)
    \/ \E kind \in Handlers, env \in Envs : Handler(kind, env)

SpecScore == Init /\ [][NextScore]_vars

-----------------------------------------------------------------------------
(* Properties of the quarter scoreboard *)

\* the request got as far as classifying the event list
Assembled == response.state # "NONE"

Ready == response.state = "READY"

RECURSIVE PointsThrough(_, _, _, _, _)
\* the points of the plays sps in quarters 1..i whose team resolves to side
PointsThrough(sps, i, side, homeTeam, awayTeam) ==
    IF sps = <<>> THEN 0
    ELSE (IF /\ Head(sps).quarter \in 1..i
             /\ resolveSide(Head(sps).team, homeTeam, awayTeam) = side
          THEN Head(sps).points ELSE 0)
         + PointsThrough(Tail(sps), i, side, homeTeam, awayTeam)

\* C1: in every projection, entry i of quarters is for quarter i and holds, for
\* each side, the sum of the points of all scoring plays of quarters 1..i whose
\* team resolves to that side (a running total); plays whose side is
\* unresolved count for neither side.
C1_CumulativeQuarterTotals ==
    Ready =>
        \A i \in 1..Len(response.recap.quarters) :
            LET r == response.recap
            IN  /\ r.quarters[i].quarter = i
                /\ r.quarters[i].homePoints =
                       PointsThrough(r.scoringPlays, i, "home", r.homeTeam, r.awayTeam)
                /\ r.quarters[i].awayPoints =
                       PointsThrough(r.scoringPlays, i, "away", r.homeTeam, r.awayTeam)

\* a projection whose second quarter carries the first quarter's points, with
\* an unresolved play among the scoring plays
C1_Witness ==
    /\ Ready
    /\ response.recap.quarters[1].homePoints = 7
    /\ response.recap.quarters[1].awayPoints = 0
    /\ response.recap.quarters[2].homePoints = 7
    /\ response.recap.quarters[2].awayPoints = 3
    /\ \E i \in 1..Len(response.recap.scoringPlays) :
           resolveSide(response.recap.scoringPlays[i].team, response.recap.homeTeam,
                       response.recap.awayTeam) = "null"

\* C2: in every READY projection homePoints and awayPoints never decrease from
\* one quarters entry to the next.
C2_QuartersNonDecreasing ==
    Ready =>
        \A i \in 1..(Len(response.recap.quarters) - 1) :
            /\ response.recap.quarters[i].homePoints
                   <= response.recap.quarters[i + 1].homePoints
            /\ response.recap.quarters[i].awayPoints
                   <= response.recap.quarters[i + 1].awayPoints

\* the highest quarter of any scoring play, at least 4
TopQuarter(sps) ==
    LET qs == {sps[i].quarter : i \in 1..Len(sps)} \cup {4}
    IN  CHOOSE q \in qs : \A r \in qs : r <= q

\* C3: quarters has exactly max(4, highest quarter of any scoring play)
\* entries, numbered 1, 2, ..., n without a gap.
C3_QuarterRange ==
    Ready =>
        /\ Len(response.recap.quarters) = TopQuarter(response.recap.scoringPlays)
        /\ \A i \in 1..Len(response.recap.quarters) : response.recap.quarters[i].quarter = i

\* a projection with six entries whose sixth-quarter plays are all unresolved
\* and with a quarter in which nobody scored
C3_Witness ==
    /\ Ready
    /\ Len(response.recap.quarters) = 6
    /\ \A i \in 1..Len(response.recap.scoringPlays) :
           response.recap.scoringPlays[i].quarter = 6 =>
               resolveSide(response.recap.scoringPlays[i].team, response.recap.homeTeam,
                           response.recap.awayTeam) = "null"
    /\ \E q \in 1..6 : \A i \in 1..Len(response.recap.scoringPlays) :
           response.recap.scoringPlays[i].quarter # q
    /\ \E i \in 1..Len(response.recap.scoringPlays) :
           resolveSide(response.recap.scoringPlays[i].team, response.recap.homeTeam,
                       response.recap.awayTeam) = "home"

-----------------------------------------------------------------------------
(* End to end: game_start, scores, empty game_end *)

RECURSIVE EventPoints(_, _, _)
\* the points of the score events of its for the team named name in quarters
\* 1..i
EventPoints(its, name, i) ==
    IF its = <<>> THEN 0
    ELSE (IF /\ Head(its).type = "score"
             /\ Head(its).payload.team = Str(name)
             /\ Head(its).payload.quarter.n <= i
          THEN Head(its).payload.points.n ELSE 0)
         + EventPoints(Tail(its), name, i)

\* its is a game_start naming two different teams (neither named like the
\* flags "home" / "away"), then score events of those teams in quarters
\* q1 <= q2 <= ... <= 4 with numeric points, then a game_end with payload {};
\* no event carries a timestamp
ScoredGameShape(its) ==
    /\ Len(its) >= 2
    /\ \A i \in 1..Len(its) : its[i].timestamp = Undef /\ its[i].createdAt = Undef
    /\ its[1].type = "game_start" /\ its[1].hasPayload
    /\ its[1].payload.homeTeam.t = "str" /\ its[1].payload.awayTeam.t = "str"
    /\ Lower(Trim(its[1].payload.homeTeam.s)) \notin {"", "home", "away"}
    /\ Lower(Trim(its[1].payload.awayTeam.s)) \notin {"", "home", "away"}
    /\ Lower(Trim(its[1].payload.homeTeam.s)) # Lower(Trim(its[1].payload.awayTeam.s))
    /\ its[Len(its)] = GameEndEmpty
    /\ \A i \in 2..(Len(its) - 1) :
           /\ its[i].type = "score" /\ its[i].hasPayload
           /\ its[i].payload.team \in {its[1].payload.homeTeam, its[1].payload.awayTeam}
           /\ its[i].payload.quarter.t = "num" /\ its[i].payload.quarter.n \in 1..4
           /\ its[i].payload.points.t = "num"
    /\ \A i, j \in 2..(Len(its) - 1) :
           i < j => its[i].payload.quarter.n <= its[j].payload.quarter.n

\* C10: a game_start naming the teams, score events of those teams in
\* quarters q1 <= q2 <= 4 with explicit points and a game_end {} give a READY
\* projection with four quarter entries holding the running totals and a
\* finalScore equal to the per-team sums; [game_start{Titans,Wraiths},
\* score{Titans,q1,7}, score{Wraiths,q2,3}, game_end{}] gives quarters
\* [{1,7,0},{2,7,3},{3,7,3},{4,7,3}] and finalScore {home: 7, away: 3}.
C10_EndToEnd ==
    /\ (Assembled /\ ScoredGameShape(items)) =>
           LET home == items[1].payload.homeTeam.s
               away == items[1].payload.awayTeam.s
           IN  /\ Ready
               /\ response.recap.quarters =
                      [i \in 1..4 |-> [quarter |-> i,
                                       homePoints |-> EventPoints(items, home, i),
                                       awayPoints |-> EventPoints(items, away, i)]]
               /\ response.recap.finalScore =
                      [home |-> EventPoints(items, home, 4),
                       away |-> EventPoints(items, away, 4)]
    /\ (Assembled /\ items = <<TitansWraiths, Score("Titans", 1, 7),
                               Score("Wraiths", 2, 3), GameEndEmpty>>) =>
           /\ Ready
           /\ response.recap.quarters =
                  <<[quarter |-> 1, homePoints |-> 7, awayPoints |-> 0],
                    [quarter |-> 2, homePoints |-> 7, awayPoints |-> 3],
                    [quarter |-> 3, homePoints |-> 7, awayPoints |-> 3],
                    [quarter |-> 4, homePoints |-> 7, awayPoints |-> 3]>>
           /\ response.recap.finalScore = [home |-> 7, away |-> 3]

\* the example game, answered
C10_Witness ==
    /\ items = <<TitansWraiths, Score("Titans", 1, 7), Score("Wraiths", 2, 3), GameEndEmpty>>
    /\ Ready
    /\ response.status = 200

-----------------------------------------------------------------------------
(* Final score: universe and properties *)

ScoreEntry(k, v) == [k |-> k, v |-> v]

\* game_end with a finalScore map (hasMap) and the four legacy fields
GameEnd(hasMap, entries, finalScoreHome, homeScore, finalScoreAway, awayScore) ==
    Ev("game_end", TRUE,
       [NoPayload EXCEPT !.hasFinalScoreMap = hasMap, !.finalScore = entries,
                         !.finalScoreHome = finalScoreHome, !.homeScore = homeScore,
                         !.finalScoreAway = finalScoreAway, !.awayScore = awayScore])

\* map gives both sides (one key in another case), legacy fields disagree
EndMapBothLegacy ==
    GameEnd(TRUE, <<ScoreEntry("Wraiths", Num(27)), ScoreEntry("titans", Num(30))>>,
            Num(1), Undef, Undef, Num(2))

\* map gives the home side only, legacy fields give both
EndMapHomeLegacy ==
    GameEnd(TRUE, <<ScoreEntry("Titans", Num(30))>>, Num(1), Undef, Num(2), Undef)

\* map gives the home side only, no legacy fields
EndMapHomeOnly ==
    GameEnd(TRUE, <<ScoreEntry("Titans", Num(30))>>, Undef, Undef, Undef, Undef)

\* map: home value is not a number, away is; legacy fields give both
EndMapAwayLegacy ==
    GameEnd(TRUE, <<ScoreEntry("Titans", Str("abc")), ScoreEntry("Wraiths", Num(27))>>,
            Undef, Num(1), Undef, Num(2))

\* no map, legacy fields give both
EndLegacy == GameEnd(FALSE, <<>>, Undef, Num(1), Num(2), Undef)

\* no map, legacy fields give the home side only
EndLegacyHomeOnly == GameEnd(FALSE, <<>>, Num(1), Undef, Undef, Undef)

\* map gives the home side only, legacy fields give the away side only
EndMapHomeLegacyAway ==
    GameEnd(TRUE, <<ScoreEntry("Titans", Num(30))>>, Undef, Undef, Num(2), Undef)

EventsFinal ==
    {TitansWraiths, Score("Titans", 1, 7), Score("Wraiths", 2, 3), Score("Ravens", 5, 2),
     EndMapBothLegacy, EndMapHomeLegacy, EndMapHomeOnly, EndMapAwayLegacy,
     EndLegacy, EndLegacyHomeOnly, EndMapHomeLegacyAway}

MaxEventsFinal == 3

NextFinal ==
    \/ \E e \in EventsFinal : StoreAppend(e, MaxEventsFinal)
    \/ \E kind \in Handlers, env \in Envs : Handler(kind, env)

SpecFinal == Init /\ [][NextFinal]_vars

\* the handler's game_end: the first one in timestamp order
HasGameEnd == FindType(SortedItems(items), "game_end") # 0

EndPayload == PayloadOf(SortedItems(items)[FindType(SortedItems(items), "game_end")])

\* the scoring-play sums of the projection
PlaySums ==
    LET r == response.recap
    IN  [home |-> PointsThrough(r.scoringPlays, TopQuarter(r.scoringPlays), "home",
                                r.homeTeam, r.awayTeam),
         away |-> PointsThrough(r.scoringPlays, TopQuarter(r.scoringPlays), "away",
                                r.homeTeam, r.awayTeam)]

KeysFor(p, name) == {i \in 1..Len(p.finalScore) : Lower(p.finalScore[i].k) = Lower(name)}

\* C5: when the finalScore map of game_end has a key matching homeTeam and a
\* key matching awayTeam (exactly or in another case) whose values are both
\* integers, finalScore is exactly those two values, whatever the legacy
\* fields and the scoring-play totals are.
C5_MapWins ==
    (Ready /\ HasGameEnd /\ EndPayload.hasFinalScoreMap) =>
        \A i \in KeysFor(EndPayload, response.recap.homeTeam),
           j \in KeysFor(EndPayload, response.recap.awayTeam) :
            (/\ KeysFor(EndPayload, response.recap.homeTeam) = {i}
             /\ KeysFor(EndPayload, response.recap.awayTeam) = {j}
             /\ EndPayload.finalScore[i].v.t = "num"
             /\ EndPayload.finalScore[j].v.t = "num")
            => response.recap.finalScore = [home |-> EndPayload.finalScore[i].v.n,
                                            away |-> EndPayload.finalScore[j].v.n]

\* the map's 30-27 is the final score although the legacy fields say 1-2 and
\* the scoring plays add up to something else
C5_Witness ==
    /\ Ready /\ HasGameEnd
    /\ EndPayload = EndMapBothLegacy.payload
    /\ response.recap.finalScore = [home |-> 30, away |-> 27]
    /\ Len(response.recap.scoringPlays) > 0
    /\ PlaySums # response.recap.finalScore

-----------------------------------------------------------------------------
(* Terminal states: universe and properties *)

\* game_start whose payload is absent
StartNoPayload == Ev("game_start", FALSE, NoPayload)

\* score event without a quarter: extractScoringPlays drops it
ScoreNoQuarter == Ev("score", TRUE, [NoPayload EXCEPT !.team = Str("Titans")])

TurnoverEvent ==
    Ev("turnover", TRUE, [NoPayload EXCEPT !.team = Str("Wraiths"), !.quarter = Num(2)])

PlayEvent == Ev("play", TRUE, [NoPayload EXCEPT !.team = Str("Titans"), !.yards = Num(5)])

\* a complete game_start ingested with a later timestamp than the events
\* that carry none: the handler's sort moves it behind them
LateStart ==
    [TitansWraiths EXCEPT !.timestamp = Str("1970-01-01T00:00:00.050Z")]

EventsAsm ==
    {TitansWraiths, StartNoPayload, LateStart,
     GameStart(Undef, Str("Wraiths")), GameStart(Str("Titans"), Str("")),
     GameStart(Str("  "), Str("Wraiths")), GameStart(Str("Titans"), Num(5)),
     Score("Titans", 1, 7), ScoreNoQuarter, TurnoverEvent, PlayEvent, GameEndEmpty}

MaxEventsAsm == 3

NextAsm ==
    \/ \E e \in EventsAsm : StoreAppend(e, MaxEventsAsm)
    \/ \E kind \in Handlers, env \in Envs : Handler(kind, env)

SpecAsm == Init /\ [][NextAsm]_vars

\* the canonical game_start: the first one in timestamp order (0: none)
StartIdx == FindType(SortedItems(items), "game_start")

StartPayload == PayloadOf(SortedItems(items)[StartIdx])

\* homeTeam or awayTeam is missing: absent, null or the empty string
NameMissing(v) == v.t \in {"undef", "null"} \/ v = Str("")

NoGameData ==
    /\ Len(extractScoringPlays(SortedItems(items))) = 0
    /\ Len(extractTurnovers(SortedItems(items))) = 0
    /\ ~HasGameEnd

\* the terminal state the rule of C6 gives the stored list, with the
\* FAILED_NO_START condition as parameter
Classify(noStart) ==
    IF Len(items) = 0 THEN "NOT_FOUND"
    ELSE IF noStart THEN "FAILED_NO_START"
    ELSE IF NameMissing(StartPayload.homeTeam) \/ NameMissing(StartPayload.awayTeam)
    THEN "FAILED_NO_TEAMS"
    ELSE IF NoGameData THEN "INSUFFICIENT"
    ELSE "READY"

\* C6 as stated: the terminal state is decided in the order NOT_FOUND (empty
\* list), FAILED_NO_START (no game_start event, and only then),
\* FAILED_NO_TEAMS (homeTeam or awayTeam missing), INSUFFICIENT (no scoring
\* play, no turnover, no game_end), READY.
C6_TerminalOrder == Assembled => response.state = Classify(StartIdx = 0)

\* C6 amended: the same order, with FAILED_NO_START reached when the list has
\* no game_start event or when its first game_start event (in timestamp
\* order) has no payload.
C6_TerminalOrderPayload ==
    Assembled =>
        response.state =
            Classify(StartIdx = 0 \/ ~SortedItems(items)[StartIdx].hasPayload)

\* a first game_start without payload, ahead of a complete game_start and a
\* scoring play: FAILED_NO_START
C6_Witness ==
    /\ response.state = "FAILED_NO_START"
    /\ StartIdx # 0
    /\ \E i \in 1..Len(items) : items[i] = TitansWraiths
    /\ Len(extractScoringPlays(SortedItems(items))) > 0

\* a team name that is a string with a non-blank character
ProperName(v) == v.t = "str" /\ Trim(v.s) # ""

\* C7: READY only when homeTeam and awayTeam of the canonical game_start
\* payload are both non-empty, non-blank strings; when either is missing,
\* empty, blank or not a string the outcome is FAILED_NO_TEAMS.
C7_TeamsRequired ==
    (Assembled /\ StartIdx # 0 /\ SortedItems(items)[StartIdx].hasPayload) =>
        /\ Ready => (ProperName(StartPayload.homeTeam) /\ ProperName(StartPayload.awayTeam))
        /\ (~ProperName(StartPayload.homeTeam) \/ ~ProperName(StartPayload.awayTeam))
               => response.state = "FAILED_NO_TEAMS"

\* C8: each of the four non-READY outcomes is answered with 404, never a 5xx,
\* and no LLM call was made when the handler returns it.
C8_NotReadyIs404 ==
    response.state \in {"NOT_FOUND", "FAILED_NO_START", "FAILED_NO_TEAMS", "INSUFFICIENT"}
        => (response.status = 404 /\ response.llmCalls = 0)

\* an INSUFFICIENT request of the article handler answered 404 without LLM
\* call, the store holding a game_start with both teams
C8_Witness ==
    /\ response.state = "INSUFFICIENT"
    /\ response.handler = "article"
    /\ response.status = 404
    /\ response.llmCalls = 0
    /\ Len(items) > 1

-----------------------------------------------------------------------------
(* Drives: universe and properties *)

DriveStart ==
    Ev("drive_start", TRUE, [NoPayload EXCEPT !.team = Str("Titans"), !.quarter = Num(1)])

\* drive_end whose result makes it a turnover record as well
DriveEndTurnover ==
    Ev("drive_end", TRUE, [NoPayload EXCEPT !.team = Str("Titans"), !.quarter = Num(1),
                                            !.result = Str("Turnover on Downs")])

DriveEndPunt == Ev("drive_end", TRUE, [NoPayload EXCEPT !.result = Str("Punt")])

EventsDrive ==
    {TitansWraiths, DriveStart, PlayEvent, DriveEndTurnover, DriveEndPunt, GameEndEmpty}

MaxEventsDrive == 4

NextDrive ==
    \/ \E e \in EventsDrive : StoreAppend(e, MaxEventsDrive)
    \/ \E kind \in Handlers, env \in Envs : Handler(kind, env)

SpecDrive == Init /\ [][NextDrive]_vars

\* the position of the last drive_start of the sorted stream when no drive_end
\* follows it and at least one event does; 0 otherwise
DanglingStart ==
    LET its == SortedItems(items)
        S == {i \in 1..(Len(its) - 1) :
                 /\ its[i].type = "drive_start"
                 /\ \A j \in (i + 1)..Len(its) :
                        its[j].type \notin {"drive_start", "drive_end"}}
    IN  IF S = {} THEN 0 ELSE MinIdx(S)

\* C9: no emitted drive has an empty captured-events list, with or without
\* both markers; and a stream that ends inside a drive with at least one
\* captured event emits that drive, without end event.
C9_NoEmptyDrive ==
    Ready =>
        /\ Len(response.recap.drives) = Len(driveGroups)
        /\ \A i \in 1..Len(driveGroups) : Len(driveGroups[i].events) > 0
        /\ DanglingStart # 0 =>
               /\ Len(driveGroups) > 0
               /\ ~driveGroups[Len(driveGroups)].hasEnd
               /\ driveGroups[Len(driveGroups)].startEvent
                      = SortedItems(items)[DanglingStart]
               /\ driveGroups[Len(driveGroups)].events
                      = SubSeq(SortedItems(items), DanglingStart + 1, Len(items))

\* a stream with a drive_start directly followed by another drive_start (an
\* empty drive, not emitted) whose second drive is left open with one play
C9_Witness ==
    /\ Ready
    /\ DanglingStart > 1
    /\ SortedItems(items)[DanglingStart - 1].type = "drive_start"
    /\ Len(driveGroups) = 1
    /\ ~driveGroups[1].hasEnd

-----------------------------------------------------------------------------
(* Event times: timestamp and createdAt in their stored shapes *)

\* the event e as stored with the given timestamp and createdAt attributes
At(e, timestamp, createdAt) ==
    [e EXCEPT !.timestamp = timestamp, !.createdAt = createdAt]

Turnover(team, quarter) ==
    Ev("turnover", TRUE, [NoPayload EXCEPT !.team = Str(team), !.quarter = Num(quarter),
                                           !.type = Str("interception")])

ScoreAt100 == At(Score("Titans", 1, 7), Num(100), Undef)
ScoreAt50 == At(Score("Wraiths", 2, 3), Str("1970-01-01T00:00:00.050Z"), Undef)
ScoreCreated50 == At(Score("Wraiths", 1, 3), Undef, Num(50))
ScoreBadTimestamp == At(Score("Titans", 1, 7), Str("not a date"), Num(70))
ScoreBefore1970 == At(Score("Titans", 1, 3), Num(-5), Undef)
ScoreNoTime == Score("Wraiths", 2, 3)
TurnoverAt50 == At(Turnover("Titans", 2), Num(50), Undef)
TurnoverCreated50 ==
    At(Turnover("Wraiths", 3), Null, Str("1970-01-01T00:00:00.050Z"))
TurnoverNoTime == Turnover("Wraiths", 1)

EventsTime ==
    {TitansWraiths, ScoreAt100, ScoreAt50, ScoreCreated50, ScoreBadTimestamp,
     ScoreBefore1970, ScoreNoTime, TurnoverAt50, TurnoverCreated50, TurnoverNoTime}

MaxEventsTime == 3

NextTime ==
    \/ \E e \in EventsTime : StoreAppend(e, MaxEventsTime)
    \/ \E kind \in Handlers, env \in Envs : Handler(kind, env)

SpecTime == Init /\ [][NextTime]_vars

\* C11: running the pipeline again over the event list the first run left
\* behind (sorted in place) yields the same terminal state and the same
\* projection as the first run.
C11_SecondRunSame ==
    Assembled =>
        /\ Assemble(fetched).state = response.state
        /\ Assemble(fetched).recap = response.recap
        /\ Ready => Assemble(fetched).drives = driveGroups

\* a READY run whose sort reordered the list, with two scoring plays of equal
\* time among the events
C11_Witness ==
    /\ Ready
    /\ fetched # items
    /\ \E i, j \in 1..Len(items) :
           /\ i < j
           /\ items[i] # items[j]
           /\ IsScoringPlay(items[i]) /\ IsScoringPlay(items[j])
           /\ getTs(items[i]) = getTs(items[j])

\* the value is a number or a string that parses as a date
ResolvesTime(v) == v.t = "num" \/ (v.t = "str" /\ DateParse(v.s).t = "num")

\* the epoch of a value that resolves
TimeOf(v) == IF v.t = "num" THEN v.n ELSE DateParse(v.s).n

\* the four-step rule: timestamp as a number, timestamp as a date string, the
\* same two steps on createdAt, 0
FourStepTime(ev) ==
    IF ResolvesTime(ev.timestamp) THEN TimeOf(ev.timestamp)
    ELSE IF ResolvesTime(ev.createdAt) THEN TimeOf(ev.createdAt)
    ELSE 0

\* C12: getTs gives every event the time of the four-step rule (numeric
\* timestamp, else parseable timestamp string, else the same on createdAt,
\* else 0); so a timestamp that is present but neither a number nor a
\* parseable date string leaves the result to createdAt.
C12_FourStepRule ==
    Assembled =>
        /\ \A i \in 1..Len(fetched) : getTs(fetched[i]) = FourStepTime(fetched[i])
        /\ \A i \in 1..(Len(fetched) - 1) :
               FourStepTime(fetched[i]) <= FourStepTime(fetched[i + 1])

\* the event has neither a parseable timestamp nor a parseable createdAt
NoParseableTime(ev) == ~ResolvesTime(ev.timestamp) /\ ~ResolvesTime(ev.createdAt)

\* C13: getTs is 0 for every event with neither a parseable timestamp nor a
\* parseable createdAt, and in the sorted list every such event stands before
\* every event whose time resolves, whatever the resolved value.
C13_UnparseableFirst ==
    Assembled =>
        \A i \in 1..Len(fetched) :
            NoParseableTime(fetched[i]) =>
                /\ getTs(fetched[i]) = 0
                /\ \A j \in 1..Len(fetched) :
                       ~NoParseableTime(fetched[j]) => i < j

\* the positions in the store's list of the events the handler's sort puts
\* first, second, ...
HandlerOrder == SortIdx([i \in 1..Len(items) |-> getTs(items[i])], Len(items))

\* the positions in the store's list of the events behind the records of an
\* extractor, in the order of its result: the loop over the sorted list
\* keeps the events that qualify, the final sort orders them by ts
ExtractOrder(Qualifies(_)) ==
    LET src == SelectSeq(HandlerOrder, LAMBDA i : Qualifies(items[i]))
        perm == SortIdx([k \in 1..Len(src) |-> getTs(items[src[k]])], Len(src))
    IN  [k \in 1..Len(src) |-> src[perm[k]]]

\* along order, times never decrease and events of equal time keep the
\* order they have in the store's list
InTimeOrderStable(order) ==
    \A k, l \in 1..Len(order) :
        k < l =>
            \/ getTs(items[order[k]]) < getTs(items[order[l]])
            \/ /\ getTs(items[order[k]]) = getTs(items[order[l]])
               /\ order[k] < order[l]

\* C17: scoringPlays and turnovers are each in non-decreasing order of
\* resolved timestamp, and records of equal timestamp stand in the order of
\* their source events in the input event list.
C17_StableTimeOrder ==
    Ready =>
        LET po == ExtractOrder(IsScoringPlay)
            to == ExtractOrder(IsTurnover)
        IN  /\ Len(response.recap.scoringPlays) = Len(po)
            /\ \A k \in 1..Len(po) :
                   LET sp == ScoringPlayOf(items[po[k]])
                   IN  response.recap.scoringPlays[k] =
                           [quarter |-> sp.quarter, team |-> sp.team,
                            type |-> sp.type, points |-> sp.points]
            /\ Len(response.recap.turnovers) = Len(to)
            /\ \A k \in 1..Len(to) :
                   LET t == TurnoverOf(items[to[k]])
                   IN  response.recap.turnovers[k] =
                           [quarter |-> t.quarter, team |-> t.team, type |-> t.type]
            /\ InTimeOrderStable(po)
            /\ InTimeOrderStable(to)

\* two turnovers of equal time 50, stored around the game_start: they come
\* out in store order, behind nothing else
C17_Witness ==
    /\ Ready
    /\ items = <<TurnoverCreated50, TitansWraiths, TurnoverAt50>>
    /\ fetched = <<TitansWraiths, TurnoverCreated50, TurnoverAt50>>
    /\ Len(response.recap.turnovers) = 2
    /\ response.recap.turnovers[1].quarter = 3
    /\ response.recap.turnovers[2].quarter = 2

-----------------------------------------------------------------------------
(* Sides: team values against the two team names *)

\* team names: plain, padded, a name that is itself a side flag, a blank
\* name; team values: flags and names in several spellings, a blank value
EventsSide ==
    {TitansWraiths, GameStart(Str("Away"), Str("Wraiths")),
     GameStart(Str(" Titans "), Str("Wraiths")), GameStart(Str("  "), Str("Wraiths")),
     Score("home", 1, 7), Score("Home", 1, 2), Score("away", 2, 3),
     Score("Titans", 1, 6), Score(" titans ", 3, 1), Score("Wraiths", 2, 3),
     Score("Ravens", 4, 2), Score("  ", 1, 1)}

MaxEventsSide == 3

NextSide ==
    \/ \E e \in EventsSide : StoreAppend(e, MaxEventsSide)
    \/ \E kind \in Handlers, env \in Envs : Handler(kind, env)

SpecSide == Init /\ [][NextSide]_vars

\* t is the name, both trimmed and lower-cased, and not blank
IsName(t, name) == t # "" /\ t = Lower(Trim(name))

\* the side C14 states for a team value: home when the trimmed, lower-cased
\* value is "home" or the lower-cased homeTeam, away under the symmetric
\* condition, null otherwise
StatedSide(teamValue, homeTeam, awayTeam) ==
    LET t == Lower(Trim(ToStr(teamValue)))
    IN  IF t = "home" \/ IsName(t, homeTeam) THEN "home"
        ELSE IF t = "away" \/ IsName(t, awayTeam) THEN "away"
        ELSE "null"

\* the side with the flags tested before the names: "home", "away", then
\* homeTeam, then awayTeam
FlagsFirstSide(teamValue, homeTeam, awayTeam) ==
    LET t == Lower(Trim(ToStr(teamValue)))
    IN  IF t = "home" THEN "home"
        ELSE IF t = "away" THEN "away"
        ELSE IF IsName(t, homeTeam) THEN "home"
        ELSE IF IsName(t, awayTeam) THEN "away"
        ELSE "null"

RECURSIVE PointsOfSide(_, _, _, _, _)
\* the points of the plays sps that Side(team, homeTeam, awayTeam) gives to side
PointsOfSide(Side(_, _, _), sps, side, homeTeam, awayTeam) ==
    IF sps = <<>> THEN 0
    ELSE (IF Side(Head(sps).team, homeTeam, awayTeam) = side
          THEN Head(sps).points ELSE 0)
         + PointsOfSide(Side, Tail(sps), side, homeTeam, awayTeam)

\* the projection credits every scoring play to the side Side gives its team
\* value: resolveSide agrees with Side, and the final score (from the play
\* sums, there being no game_end) is the points of each side under Side
SidesFollow(Side(_, _, _)) ==
    LET r == response.recap
    IN  /\ \A i \in 1..Len(r.scoringPlays) :
               resolveSide(r.scoringPlays[i].team, r.homeTeam, r.awayTeam)
                   = Side(r.scoringPlays[i].team, r.homeTeam, r.awayTeam)
        /\ r.finalScore.home = PointsOfSide(Side, r.scoringPlays, "home", r.homeTeam, r.awayTeam)
        /\ r.finalScore.away = PointsOfSide(Side, r.scoringPlays, "away", r.homeTeam, r.awayTeam)

\* C14 as stated: resolveSide returns 'home' whenever the trimmed, lower-cased
\* value is "home" or equals the lower-cased homeTeam, 'away' under the
\* symmetric condition for awayTeam, and null otherwise, for all team values
\* and team names.
C14_SideRule == Ready => SidesFollow(StatedSide)

\* C14 amended: with t the trimmed, lower-cased value, resolveSide returns
\* 'home' if t is "home", else 'away' if t is "away", else 'home' if t equals
\* the trimmed, lower-cased homeTeam, else 'away' if t equals the trimmed,
\* lower-cased awayTeam, else null; a blank name equals nothing.
C14_FlagsBeforeNames == Ready => SidesFollow(FlagsFirstSide)

\* the home team is named "Away" and a play of team "away" went to the away side
C14_Witness ==
    /\ Ready
    /\ response.recap.homeTeam = "Away"
    /\ response.recap.finalScore = [home |-> 0, away |-> 3]
    /\ \E i \in 1..Len(response.recap.scoringPlays) :
           response.recap.scoringPlays[i].team = Str("away")

-----------------------------------------------------------------------------
(* Extraction: events that qualify, events that are dropped *)

\* an event of the given type with team Titans and the given quarter and points
Scored(type, quarter, points) ==
    Ev(type, TRUE, [NoPayload EXCEPT !.team = Str("Titans"), !.quarter = quarter,
                                     !.points = points])

\* a play that carries points, and plays whose points are absent, null or text
PlayWithPoints == Scored("play", Num(2), Num(3))
PlayNoPoints == Scored("play", Num(2), Undef)
PlayNullPoints == Scored("play", Num(1), Null)
PlayTextPoints == Scored("play", Num(1), Str("TD"))

\* score events without team, with quarter: null
ScoreNoTeam ==
    Ev("score", TRUE, [NoPayload EXCEPT !.quarter = Num(1), !.points = Num(7)])
ScoreNullQuarter == Scored("score", Null, Num(7))

\* a score event of quarter 0
ScoreQuarterZero == Scored("score", Num(0), Num(3))

\* turnover event without a quarter
TurnoverNoQuarter == Ev("turnover", TRUE, [NoPayload EXCEPT !.team = Str("Wraiths")])

DriveEndInterception ==
    Ev("drive_end", TRUE, [NoPayload EXCEPT !.team = Str("Wraiths"), !.quarter = Num(3),
                                            !.result = Str("interception")])

EventsExtract ==
    {TitansWraiths, Score("Titans", 1, 7), PlayWithPoints, PlayNoPoints, PlayNullPoints,
     PlayTextPoints, ScoreNoQuarter, ScoreNoTeam, ScoreNullQuarter, ScoreQuarterZero,
     TurnoverEvent, Turnover("Titans", 2), TurnoverNoQuarter,
     DriveEndTurnover, DriveEndInterception}

MaxEventsExtract == 3

NextExtract ==
    \/ \E e \in EventsExtract : StoreAppend(e, MaxEventsExtract)
    \/ \E kind \in Handlers, env \in Envs : Handler(kind, env)

SpecExtract == Init /\ [][NextExtract]_vars

\* payload.quarter is an integer and payload.team is not empty
HasQuarterAndTeam(e) ==
    PayloadOf(e).quarter.t = "num" /\ Truthy(Coalesce(PayloadOf(e).team, Str("")))

\* type is exactly 'score' or payload.points is a finite number
StatedScoring(e) == e.type = "score" \/ PayloadOf(e).points.t = "num"

\* C15: an event with an integer quarter and a non-empty team yields a scoring
\* play if and only if its type is 'score' or its payload.points is a finite
\* number; an event that is not of type 'score' and whose payload.points is
\* absent, null or not a number yields none.
C15_ScoringIff ==
    Ready =>
        /\ Len(response.recap.scoringPlays) = Len(ExtractOrder(IsScoringPlay))
        /\ \A i \in 1..Len(items) :
               /\ HasQuarterAndTeam(items[i]) =>
                      (IsScoringPlay(items[i]) <=> StatedScoring(items[i]))
               /\ ~StatedScoring(items[i]) => ~IsScoringPlay(items[i])

\* C16: every record of scoringPlays and of turnovers has an integer quarter
\* >= 1 and a non-empty team; an event whose payload has no quarter (absent
\* or null) or no team yields no record.
C16_RecordsWellFormed ==
    Ready =>
        /\ \A k \in 1..Len(response.recap.scoringPlays) :
               /\ response.recap.scoringPlays[k].quarter >= 1
               /\ Truthy(response.recap.scoringPlays[k].team)
        /\ \A k \in 1..Len(response.recap.turnovers) :
               /\ response.recap.turnovers[k].quarter >= 1
               /\ Truthy(response.recap.turnovers[k].team)
        /\ \A i \in 1..Len(items) :
               ~HasQuarterAndTeam(items[i]) =>
                   ~IsScoringPlay(items[i]) /\ ~IsTurnover(items[i])

\* the type C18 states for the turnover record of event e
StatedKind(e) ==
    IF PayloadOf(e).type.t \notin {"undef", "null"} THEN ToStr(PayloadOf(e).type)
    ELSE IF e.type = "drive_end" THEN ToStr(PayloadOf(e).result)
    ELSE "turnover"

\* C18: a Turnover record's type is payload.type when present, else for a
\* record derived from a drive_end the raw payload.result string, else the
\* literal "turnover".
C18_TurnoverKind ==
    Ready =>
        LET to == ExtractOrder(IsTurnover)
        IN  /\ Len(response.recap.turnovers) = Len(to)
            /\ \A k \in 1..Len(to) :
                   response.recap.turnovers[k].type = StatedKind(items[to[k]])

\* a score or turnover event that lacks an integer quarter or a non-empty team
Malformed(e) == e.type \in {"score", "turnover"} /\ ~HasQuarterAndTeam(e)

\* the list its without its i-th event
Without(its, i) == SubSeq(its, 1, i - 1) \o SubSeq(its, i + 1, Len(its))

\* C19: a malformed score or turnover event never makes the request fail, and
\* scoringPlays, turnovers, quarters and finalScore of the projection are
\* what they are when that event is left out of the list.
C19_MalformedIgnored ==
    Ready =>
        /\ response.status < 500 \/ response.handler = "article"
        /\ \A i \in 1..Len(items) :
               (Malformed(items[i]) /\ Assemble(Without(items, i)).state = "READY") =>
                   LET w == Assemble(Without(items, i)).recap
                   IN  /\ w.scoringPlays = response.recap.scoringPlays
                       /\ w.turnovers = response.recap.turnovers
                       /\ w.quarters = response.recap.quarters
                       /\ w.finalScore = response.recap.finalScore

-----------------------------------------------------------------------------
(* Store access of a request *)

\* event lists of every terminal state: empty, without game_start, without
\* team names, without game data, complete
EventsStore ==
    {TitansWraiths, GameStart(Undef, Str("Wraiths")), Score("Titans", 1, 7),
     TurnoverEvent}

MaxEventsStore == 3

NextStore ==
    \/ \E e \in EventsStore : StoreAppend(e, MaxEventsStore)
    \/ \E kind \in Handlers, env \in Envs : Handler(kind, env)

SpecStore == Init /\ [][NextStore]_vars

\* the request is turned away before the store is read: bad body, no gameId,
\* or (article handler) no output bucket configured
TurnedAway(kind, env) == env.req # "ok" \/ (kind = "article" /\ ~env.bucket)

\* the Query, or the Scan taken after a ValidationException, returned items
ReadSucceeded(env) ==
    \/ env.query = "ok"
    \/ env.query = "ValidationException" /\ env.scan = "ok"

\* C20: a request reads the store by one Query; a Scan is issued only after
\* that Query failed with ValidationException, and once; any other Query
\* failure, or a failure of the Scan, ends the request with a 500 and no
\* further store access; the projection is computed only after a read
\* succeeded.
C20_StoreAccess ==
    [][\A kind \in Handlers, env \in Envs :
          Handler(kind, env) =>
              /\ response'.queries = IF TurnedAway(kind, env) THEN 0 ELSE 1
              /\ response'.scans =
                     IF ~TurnedAway(kind, env) /\ env.query = "ValidationException"
                     THEN 1 ELSE 0
              /\ (~TurnedAway(kind, env) /\ ~ReadSucceeded(env)) =>
                     /\ response'.status = 500
                     /\ response'.state = "NONE"
                     /\ response'.llmCalls = 0
              /\ response'.state # "NONE" =>
                     ~TurnedAway(kind, env) /\ ReadSucceeded(env)]_vars

\* a READY projection computed from the items of the fallback Scan
C20_Witness ==
    /\ Ready
    /\ response.queries = 1
    /\ response.scans = 1

-----------------------------------------------------------------------------
(* Drives as spans of the sorted stream *)

IsType(i, type) == fetched[i].type = type

\* the positions of the sorted stream that hold a drive_start
DriveStarts == {j \in 1..Len(fetched) : IsType(j, "drive_start")}

\* the first position after j that holds a drive_start or a drive_end; one
\* past the end of the stream when there is none
MarkerAfter(j) ==
    LET S == {k \in (j + 1)..Len(fetched) :
                 IsType(k, "drive_start") \/ IsType(k, "drive_end")}
    IN  IF S = {} THEN Len(fetched) + 1 ELSE MinIdx(S)

\* the drive begun at j is closed by a drive_end
EndsAtDriveEnd(j) ==
    MarkerAfter(j) <= Len(fetched) /\ IsType(MarkerAfter(j), "drive_end")

\* the last position captured by the drive begun at j: its drive_end, or the
\* position before the next drive_start, or the end of the stream
LastCaptured(j) == IF EndsAtDriveEnd(j) THEN MarkerAfter(j) ELSE MarkerAfter(j) - 1

\* the drive_start positions whose drive captured at least one event
EmittedStarts == {j \in DriveStarts : LastCaptured(j) > j}

\* the k-th emitted drive_start position
NthEmitted(k) ==
    CHOOSE j \in EmittedStarts : Cardinality({i \in EmittedStarts : i < j}) = k - 1

\* the drive group of the span begun at j
SpanDrive(j) ==
    [open |-> TRUE, startEvent |-> fetched[j], hasEnd |-> EndsAtDriveEnd(j),
     endEvent |-> IF EndsAtDriveEnd(j) THEN fetched[MarkerAfter(j)] ELSE NoEvent,
     events |-> SubSeq(fetched, j + 1, LastCaptured(j))]

RECURSIVE StatedDrives(_, _, _)
\* the drives of the machine of C21: idle + drive_start opens a drive; inDrive
\* + any event appends it; inDrive + drive_end also closes and emits the
\* drive; the end of the stream emits an open drive that captured something
StatedDrives(its, drives, current) ==
    IF its = <<>>
    THEN (IF current.open /\ Len(current.events) > 0 THEN Append(drives, current)
          ELSE drives)
    ELSE LET ev == Head(its)
             grown == [current EXCEPT !.events = Append(@, ev)]
         IN  IF ~current.open
             THEN StatedDrives(Tail(its), drives,
                      IF ev.type = "drive_start"
                      THEN [open |-> TRUE, startEvent |-> ev, hasEnd |-> FALSE,
                            endEvent |-> NoEvent, events |-> <<>>]
                      ELSE current)
             ELSE IF ev.type = "drive_end"
             THEN StatedDrives(Tail(its),
                      Append(drives, [grown EXCEPT !.hasEnd = TRUE, !.endEvent = ev]),
                      NoDrive)
             ELSE StatedDrives(Tail(its), drives, grown)

\* C21 as stated: while inDrive every incoming event, a further drive_start
\* included, is appended to the current drive's captured events, and the
\* drive is closed only by a drive_end or by the end of the stream.
C21_AnyEventAppended == Ready => driveGroups = StatedDrives(fetched, <<>>, NoDrive)

\* C21 amended: while inDrive every incoming event other than a drive_start
\* is appended to the current drive; the drive is closed by a drive_end
\* (captured as its end event), by a further drive_start (captured in no
\* drive, it opens the next one) or by the end of the stream, and is emitted
\* when it captured at least one event.
C21_ClosedByNextStart ==
    Ready =>
        /\ Len(driveGroups) = Cardinality(EmittedStarts)
        /\ \A k \in 1..Len(driveGroups) : driveGroups[k] = SpanDrive(NthEmitted(k))

\* a drive that captured an event and was closed by the next drive_start,
\* followed by a drive closed by its drive_end
C21_Witness ==
    /\ Ready
    /\ Len(driveGroups) = 2
    /\ ~driveGroups[1].hasEnd
    /\ Len(driveGroups[1].events) = 1
    /\ driveGroups[2].hasEnd

\* position i is seen while the summarizer is idle: it is no drive_start, and
\* it comes before the first drive_start or after a drive_end with no
\* drive_start in between
IdleAt(i) ==
    /\ ~IsType(i, "drive_start")
    /\ LET prev == {j \in 1..(i - 1) : IsType(j, "drive_start") \/ IsType(j, "drive_end")}
       IN  prev = {} \/ IsType(CHOOSE j \in prev : \A k \in prev : k <= j, "drive_end")

\* the positions captured by the k-th emitted drive
SpanOf(k) == (NthEmitted(k) + 1)..LastCaptured(NthEmitted(k))

RECURSIVE SumNum(_)
\* the sum of a sequence of JS numbers
SumNum(vs) == IF vs = <<>> THEN 0 ELSE Head(vs).n + SumNum(Tail(vs))

\* C22: every event is captured in at most one drive; an event seen while the
\* summarizer is idle is captured in no drive and adds nothing to any
\* drive's plays or yards.
C22_IdleIgnored ==
    Ready =>
        LET n == Len(driveGroups)
            ds == response.recap.drives
            busy == {i \in 1..Len(fetched) : ~IsType(i, "drive_start") /\ ~IdleAt(i)}
        IN  /\ n = Cardinality(EmittedStarts)
            /\ \A k \in 1..n :
                   /\ driveGroups[k].events = [i \in 1..Cardinality(SpanOf(k)) |->
                                                  fetched[NthEmitted(k) + i]]
                   /\ SpanOf(k) \subseteq busy
                   /\ \A l \in 1..n : l # k => SpanOf(k) \cap SpanOf(l) = {}
                   /\ ds[k].plays = Num(Cardinality({i \in SpanOf(k) : IsType(i, "play")}))
            /\ SumNum([k \in 1..n |-> ds[k].plays])
                   = Cardinality({i \in busy : IsType(i, "play")})
            /\ SumNum([k \in 1..n |-> ds[k].yards])
                   = SumYards(SelectSeq(fetched, LAMBDA e : e.type = "play"))
                     - SumYards(SelectSeq([i \in 1..Len(fetched) |->
                                              IF IdleAt(i) THEN fetched[i] ELSE NoEvent],
                                          LAMBDA e : e.type = "play"))

\* a play seen after the drive_end of the only drive: it is in no drive
C22_Witness ==
    /\ Ready
    /\ Len(driveGroups) = 1
    /\ driveGroups[1].hasEnd
    /\ \E i \in 1..Len(fetched) :
           /\ IdleAt(i)
           /\ IsType(i, "play")
           /\ \E j \in 1..(i - 1) : IsType(j, "drive_end")

-----------------------------------------------------------------------------
(* The canonical game_start *)

\* the positions of the sorted list that hold a game_start
GameStarts == {k \in 1..Len(fetched) : IsType(k, "game_start")}

\* the game_start positions behind the first one
LaterStarts == {k \in GameStarts : \E j \in GameStarts : j < k}

\* C23: homeTeam, awayTeam and the FAILED_NO_START / FAILED_NO_TEAMS decision
\* depend only on the first game_start in timestamp order: with any further
\* game_start behind it left out, the terminal state and the team names are
\* the same, also when the first one lacks team names and a later one
\* carries them.
C23_FirstStartDecides ==
    Assembled =>
        \A k \in LaterStarts :
            LET w == Assemble(Without(fetched, k))
            IN  /\ w.state = response.state
                /\ w.recap.homeTeam = response.recap.homeTeam
                /\ w.recap.awayTeam = response.recap.awayTeam
                /\ Ready =>
                       /\ response.recap.homeTeam
                              = TeamName(PayloadOf(fetched[MinIdx(GameStarts)]).homeTeam)
                       /\ response.recap.awayTeam
                              = TeamName(PayloadOf(fetched[MinIdx(GameStarts)]).awayTeam)

\* the complete game_start was stored first but carries the later time: the
\* game_start without homeTeam is the first in timestamp order and decides
C23_Witness ==
    /\ response.state = "FAILED_NO_TEAMS"
    /\ Len(items) >= 2
    /\ items[1] = LateStart
    /\ \E k \in LaterStarts : fetched[k] = LateStart

-----------------------------------------------------------------------------
(* Final score from the scoring plays *)

\* the points of all scoring plays of the projection per resolved side,
\* whatever their quarter
WholeGameSums ==
    LET r == response.recap
    IN  [home |-> PointsOfSide(resolveSide, r.scoringPlays, "home", r.homeTeam, r.awayTeam),
         away |-> PointsOfSide(resolveSide, r.scoringPlays, "away", r.homeTeam, r.awayTeam)]

\* the finalScore map gives both sides as integers
MapGivesBoth ==
    /\ IsInteger(MapScore(EndPayload, response.recap.homeTeam))
    /\ IsInteger(MapScore(EndPayload, response.recap.awayTeam))

\* the legacy fields give both sides as integers
LegacyGivesBoth == IsInteger(LegacyHome(EndPayload)) /\ IsInteger(LegacyAway(EndPayload))

\* some side is an integer neither in the map nor in the legacy fields
SideMissing ==
    \/ /\ ~IsInteger(MapScore(EndPayload, response.recap.homeTeam))
       /\ ~IsInteger(LegacyHome(EndPayload))
    \/ /\ ~IsInteger(MapScore(EndPayload, response.recap.awayTeam))
       /\ ~IsInteger(LegacyAway(EndPayload))

-----------------------------------------------------------------------------
(* waitForVideoOperation: actions and properties *)

MaxPollIntervalMs == 2
MaxTimeoutMs == 3
\* the longest a poll request takes, and the longest a timer fires late
MaxFetchMs == 1
MaxTimerLateMs == 1

\* no clock reading of a call lies beyond this: the last poll is sent at
\* timeoutMs at the latest, and one request and one sleep follow it
MaxClock == MaxTimeoutMs + MaxFetchMs + MaxPollIntervalMs + MaxTimerLateMs

PollReplies ==
    {PollReply(FALSE, "object", FALSE, FALSE, FALSE),
     PollReply(TRUE, "null", FALSE, FALSE, FALSE),
     PollReply(TRUE, "invalid", FALSE, FALSE, FALSE),
     PollReply(TRUE, "object", FALSE, FALSE, FALSE),
     PollReply(TRUE, "object", FALSE, FALSE, TRUE),
     PollReply(TRUE, "object", TRUE, TRUE, TRUE),
     PollReply(TRUE, "object", TRUE, FALSE, FALSE),
     PollReply(TRUE, "object", TRUE, FALSE, TRUE)}

\* the call, up to the loop: the two argument checks and start = Date.now();
\* the clock counts from the call
WaitCall(hasApiKey, hasOperationName, pollIntervalMs, timeoutMs) ==
    /\ wait.pc = "idle"
    /\ wait' = IF ~hasApiKey THEN [wait EXCEPT !.pc = "thrown", !.error = "no_api_key"]
               ELSE IF ~hasOperationName
               THEN [wait EXCEPT !.pc = "thrown", !.error = "no_operation_name"]
               ELSE [wait EXCEPT !.pc = "top", !.start = wait.now,
                                 !.pollIntervalMs = pollIntervalMs,
                                 !.timeoutMs = timeoutMs]
    /\ UNCHANGED <<items, response, driveGroups, fetched, legacy, ingestVars>>

\* the top of the loop, up to the await of fetch: the timeout test, then the
\* poll request is sent
WaitLoopTop ==
    /\ wait.pc = "top"
    /\ wait' = IF TimedOut(wait.now - wait.start, wait.timeoutMs)
               THEN [wait EXCEPT !.pc = "thrown", !.error = "timeout"]
               ELSE [wait EXCEPT !.pc = "polling", !.sentAt = wait.now]
    /\ UNCHANGED <<items, response, driveGroups, fetched, legacy, ingestVars>>

\* the poll request returns after ms milliseconds with reply r; the loop
\* throws, returns the video URI or starts its sleep
WaitPollReturns(r, ms) ==
    /\ wait.pc = "polling"
    /\ wait.now + ms <= MaxClock
    /\ wait' = LET w == [wait EXCEPT !.now = wait.now + ms, !.reply = r]
                   next == AfterReply(r)
               IN  CASE next = "sleep" -> [w EXCEPT !.pc = "sleeping"]
                     [] next = "return" -> [w EXCEPT !.pc = "returned", !.videoUri = TRUE]
                     [] OTHER -> [w EXCEPT !.pc = "thrown", !.error = next]
    /\ UNCHANGED <<items, response, driveGroups, fetched, legacy, ingestVars>>

\* the timer of the sleep fires, pollIntervalMs later or up to late more
WaitWake(late) ==
    /\ wait.pc = "sleeping"
    /\ wait.now + wait.pollIntervalMs + late <= MaxClock
    /\ wait' = [wait EXCEPT !.pc = "top", !.now = wait.now + wait.pollIntervalMs + late]
    /\ UNCHANGED <<items, response, driveGroups, fetched, legacy, ingestVars>>

NextWait ==
    \/ \E hasApiKey \in BOOLEAN, hasOperationName \in BOOLEAN,
          pollIntervalMs \in 1..MaxPollIntervalMs, timeoutMs \in 1..MaxTimeoutMs :
            WaitCall(hasApiKey, hasOperationName, pollIntervalMs, timeoutMs)
    \/ WaitLoopTop
    \/ \E r \in PollReplies, ms \in 0..MaxFetchMs : WaitPollReturns(r, ms)
    \/ \E late \in 0..MaxTimerLateMs : WaitWake(late)

\* every poll request returns and every timer fires
SpecWait == Init /\ [][NextWait]_vars /\ WF_vars(NextWait)

WaitEnded == wait.pc \in {"returned", "thrown"}

\* a video URI is returned only after a poll that reported done, no error and
\* a URI
UriOnlyWhenDone ==
    (wait.pc = "returned" \/ wait.videoUri) =>
        /\ wait.pc = "returned" /\ wait.videoUri
        /\ wait.reply.ok /\ wait.reply.json = "object"
        /\ wait.reply.done /\ ~wait.reply.error /\ wait.reply.uri

\* the timeout error is thrown only when the elapsed time exceeds timeoutMs
TimeoutOnlyWhenExceeded ==
    wait.error = "timeout" => wait.now - wait.start > wait.timeoutMs

\* no poll is sent, and no sleep is started, by a loop whose test at the top
\* found the timeout exceeded
NoPollAfterTimeout ==
    wait.pc \in {"polling", "sleeping"} => wait.sentAt - wait.start <= wait.timeoutMs

\* C25: waitForVideoOperation ends whenever every poll request returns; it
\* returns a video URI only after a poll reported done with no error and a
\* URI; a loop whose operation does not report done throws the timeout error
\* once the elapsed time exceeds timeoutMs, and no poll is sent after that.
C25_BoundedPolling ==
    /\ [](UriOnlyWhenDone /\ TimeoutOnlyWhenExceeded /\ NoPollAfterTimeout)
    /\ (wait.pc # "idle") ~> WaitEnded
    /\ (wait.pc = "top" /\ wait.now - wait.start > wait.timeoutMs)
            ~> (wait.error = "timeout")

\* a call that timed out after a poll that reported the operation not done
C25_Witness ==
    /\ wait.pc = "thrown" /\ wait.error = "timeout"
    /\ wait.reply = PollReply(TRUE, "object", FALSE, FALSE, FALSE)
    /\ wait.now - wait.start > wait.timeoutMs

-----------------------------------------------------------------------------
(* Final score and the last quarters entry *)

LastQuarter == response.recap.quarters[Len(response.recap.quarters)]

\* C26: whenever the final score is computed from the scoring plays (no
\* game_end, or a side that game_end does not give), finalScore.home is
\* homePoints of the last quarters entry and finalScore.away its awayPoints.
C26_FinalIsLastQuarter ==
    (Ready /\ (~HasGameEnd \/ SideMissing)) =>
        /\ response.recap.finalScore.home = LastQuarter.homePoints
        /\ response.recap.finalScore.away = LastQuarter.awayPoints

-----------------------------------------------------------------------------
(* The order in which the store returns the events *)

\* the lists that hold the same events as its in another order
Reorderings(its) ==
    LET n == Len(its)
        bijections == {f \in [1..n -> 1..n] : \A a, b \in 1..n : a # b => f[a] # f[b]}
    IN  {[i \in 1..n |-> its[f[i]]] : f \in bijections}

\* C27: the terminal state and the projection do not depend on the order in
\* which the store returns the events, equal or unresolvable timestamps
\* included: every reordering of the stored list gives the same outcome.
C27_StoreOrderIrrelevant ==
    Assembled =>
        \A its \in Reorderings(items) :
            /\ Assemble(its).state = response.state
            /\ Assemble(its).recap = response.recap

-----------------------------------------------------------------------------
(* The three copies of the projection *)

\* a score event whose team is the home name in lower case, a play that
\* carries points
ScoreLowerCase == Score("titans", 3, 3)

EventsLegacy ==
    {TitansWraiths, Score("Titans", 1, 7), Score("Wraiths", 2, 3), ScoreLowerCase,
     PlayWithPoints, TurnoverEvent, EndLegacy, EndMapBothLegacy}

MaxEventsLegacy == 3

\* the requests the legacy handler is compared on
EnvsLegacy == {GoodEnv, [GoodEnv EXCEPT !.req = "noGameId"], [GoodEnv EXCEPT !.query = "other"]}

NextLegacy ==
    \/ \E e \in EventsLegacy : StoreAppend(e, MaxEventsLegacy)
    \/ \E kind \in Handlers, env \in EnvsLegacy : Handler(kind, env)
    \/ \E env \in EnvsLegacy : LegacyHandler(env)

SpecLegacy == Init /\ [][NextLegacy]_vars

\* C28: over the same event list the recap handler, the article handler and
\* the legacy recap handler reach the same terminal state and give the same
\* finalScore and the same quarters entries, each a cumulative total.
C28_CopiesAgree ==
    (Assembled /\ legacy.state # "NONE") =>
        /\ \A kind \in Handlers :
               /\ HandlerResponse(kind, GoodEnv, items).state = response.state
               /\ HandlerResponse(kind, GoodEnv, items).recap = response.recap
        /\ legacy.state = response.state
        /\ Ready => /\ legacy.recap.finalScore = response.recap.finalScore
                    /\ legacy.recap.quarters = response.recap.quarters

-----------------------------------------------------------------------------
(* Turnovers of one drive: the events the mock game posts *)

\* the drive_end the mock game posts after a drive without a score
MockDriveEnd(result) ==
    Ev("drive_end", TRUE, [NoPayload EXCEPT !.team = Str("Titans"), !.quarter = Num(1),
                                            !.driveNumber = Num(1), !.result = Str(result),
                                            !.plays = Num(3), !.totalYards = Num(12)])

\* drive_start, the explicit turnover event of a drive that ends in a
\* turnover, and the two drive_end events
EventsMock ==
    {TitansWraiths, DriveStart, Turnover("Titans", 1),
     MockDriveEnd("turnover"), MockDriveEnd("punt")}

MaxEventsMock == 4

NextMock ==
    \/ \E e \in EventsMock : StoreAppend(e, MaxEventsMock)
    \/ \E kind \in Handlers, env \in Envs : Handler(kind, env)

SpecMock == Init /\ [][NextMock]_vars

\* C29: a drive, from its drive_start to its drive_end, contributes at most
\* one record to turnovers; the mock game's turnover drive (turnover event,
\* then drive_end with result "turnover") gives one record.
C29_OneTurnoverPerDrive ==
    Ready =>
        /\ \A d \in 1..Len(driveGroups) :
               driveGroups[d].hasEnd => Len(extractTurnovers(driveGroups[d].events)) <= 1
        /\ fetched = <<TitansWraiths, DriveStart, Turnover("Titans", 1),
                       MockDriveEnd("turnover")>>
               => Len(response.recap.turnovers) = 1

-----------------------------------------------------------------------------
(* Ingest: actions and properties *)

EventTypes == {"game_start", "kickoff", "game_end", "final", "play"}

\* the request arrives: 400 without a type, else the event is put into the
\* event table (500 if the put fails); requests are numbered as they arrive
IngestPut(i, type, ok) ==
    /\ ingests[i].pc = "idle"
    /\ \A j \in 1..(i - 1) : ingests[j].pc # "idle"
    /\ IF type = "" \/ ~ok
       THEN /\ ingests' = [ingests EXCEPT ![i] = [NoIngest EXCEPT !.pc = "done"]]
            /\ UNCHANGED <<items, response, driveGroups, fetched, legacy>>
       ELSE /\ ingests' = [ingests EXCEPT ![i] = [NoIngest EXCEPT !.pc = "get", !.type = type]]
            /\ items' = Append(items, [Ev(type, TRUE, NoPayload)
                                          EXCEPT !.timestamp = Str(IngestTime),
                                                 !.createdAt = Str(IngestTime)])
            /\ response' = NoResponse
            /\ driveGroups' = <<>>
            /\ fetched' = <<>>
            /\ legacy' = NoLegacy
    /\ endStands' = (endStands /\ ~IsStartType(type))
    /\ UNCHANGED <<session, wait>>

\* updateGameSession reads the session; a failed read is taken for "no session"
IngestGet(i, ok) ==
    /\ ingests[i].pc = "get"
    /\ ingests' = [ingests EXCEPT ![i].pc = "update", ![i].found = ok /\ session.exists]
    /\ endStands' = (endStands /\ ~IsStartType(ingests[i].type))
    /\ UNCHANGED <<items, response, driveGroups, fetched, wait, legacy, session>>

\* updateGameSession sends the update built from what it read; a rejected or
\* failed update is logged and the request answers 200 all the same
IngestUpdate(i, ok) ==
    /\ ingests[i].pc = "update"
    /\ ingests' = [ingests EXCEPT ![i].pc = "done"]
    /\ LET applied == ok /\ ~UpdateRejected(ingests[i].found, ingests[i].type)
       IN  /\ session' = IF applied THEN UpdatedSession(ingests[i].found, ingests[i].type)
                         ELSE session
           /\ endStands' = IF IsStartType(ingests[i].type) THEN FALSE
                           ELSE IF applied /\ IsEndType(ingests[i].type) THEN TRUE
                           ELSE endStands
    /\ UNCHANGED <<items, response, driveGroups, fetched, wait, legacy>>

NextIngest ==
    \/ \E i \in 1..MaxIngests, type \in EventTypes \cup {""}, ok \in BOOLEAN :
            IngestPut(i, type, ok)
    \/ \E i \in 1..MaxIngests, ok \in BOOLEAN : IngestGet(i, ok)
    \/ \E i \in 1..MaxIngests, ok \in BOOLEAN : IngestUpdate(i, ok)

SpecIngest == Init /\ [][NextIngest]_vars

\* C30: under any interleaving of the ingest requests of one game, once the
\* session update of a game_end or final event has been applied gameStatus
\* stays 'completed' unless a game_start or kickoff is ingested afterwards;
\* an ingest of another type that read the session before it existed does
\* not set it back to 'active'.
C30_CompletedStands == endStands => session.gameStatus = "completed"

====
